---- MODULE Spec2Model ----
(***************************************************************************)
(* Clinical classification core of the paediatric assessment dashboard:    *)
(*   - MeningitisWorkflow / DiarrhoeaWorkflow            (pcat.py)         *)
(*   - EnhancedMOHScraper._calculate_risk_level          (moh_risk_scraper)*)
(*   - AgeConstraintManager                              (moh_risk_scraper)*)
(* One call is in progress at a time: a call is made from the idle state,  *)
(* its result is observed, and Return drops the call's local objects.      *)
(* Strings that are inspected character by character (disease names) are   *)
(* sequences of one-character strings; verdict texts are plain strings     *)
(* (without the leading pictograph of the source literals).                *)
(***************************************************************************)
EXTENDS Integers, Sequences, FiniteSets, TLC

VARIABLES
    op,                     \* the call whose result is being observed, or "idle"
    meningitis,             \* the MeningitisWorkflow instance of the call
    diarrhoea,              \* the DiarrhoeaWorkflow instance of the call
    result,                 \* verdict text returned by a classify() call
    risk_thresholds,        \* EnhancedMOHScraper.risk_thresholds
    scraper_min_age_months, \* EnhancedMOHScraper.min_age_months
    scraper_max_age_months, \* EnhancedMOHScraper.max_age_months
    disease,                \* arguments of the _calculate_risk_level call;
    cases,                  \* the case count is cases * 10^cases_exp10
    cases_exp10,            \* (Python integers are unbounded)
    deaths,
    risk_level,             \* value returned by _calculate_risk_level
    raised,                 \* exception raised by the call, "" if it returned
    min_age_months,         \* AgeConstraintManager.min_age_months
    max_age_months,         \* AgeConstraintManager.max_age_months
    success,                \* value returned by set_age_range
    arg_min_months,         \* arguments of the constructor / set_age_range call
    arg_max_months,
    query_age,              \* argument of the is_age_in_range call
    in_range,               \* value returned by is_age_in_range
    age_range,              \* pair returned by get_age_range
    affects,                \* value returned by _affects_target_age_group
    committed,              \* history: the construction-time range, or the
                            \* arguments of the latest set_age_range call
                            \* that returned True
    risk_areas,             \* rows of the risk_areas table of risk_areas.db
    next_id,                \* the table's AUTOINCREMENT counter
    disease_outbreaks_table,\* rows of the disease_outbreaks table of
                            \* clinical_assessment.db
    alerts_table,           \* rows of its alerts table
    outbreaks_arg,          \* argument of check_alerts
    alerts_out,             \* list returned by check_alerts
    symptom_vars,           \* st.session_state.symptom_vars
    patients_table,         \* rows of the patients table
    csv_file,               \* clinical_assessment_results.csv
    pdf_files,              \* patient ids whose PDF report exists
    form,                   \* the widgets of the patient assessment page
    steps,                  \* what the pass did, in order
    csv_returned,           \* value returned by export_to_csv
    moh_response,           \* what the two requests of get_all_risk_areas
    who_response,           \* answered
    areas_arg,              \* argument of _filter_by_age_constraints
    areas_out,              \* list returned by get_all_risk_areas or by
                            \* _filter_by_age_constraints
    last_update,            \* history: the range of the latest 'Update Age
                            \* Range' press whose set_age_range returned
                            \* True, << >> before the first
    writer_pc,              \* where a task running set_age_range stands
    reader_pc,              \* where a task running a read stands
    reader_call,            \* the read it runs
    reader_min,             \* the minimum it has loaded
    observed,               \* the pair of the finished read, << >> if none
    committed_pairs,        \* history: the construction-time range and the
                            \* arguments of every accepted set_age_range
    overlapped,             \* history: a set_age_range was in progress
                            \* during the read
    now,                    \* the wall clock (datetime.now())
    remembered,             \* history: an earlier classifier call, with its
                            \* input and what it did
    between                 \* history: what has happened since that call

vars == <<op, meningitis, diarrhoea, result, risk_thresholds,
          scraper_min_age_months, scraper_max_age_months,
          disease, cases, cases_exp10, deaths, risk_level, raised,
          min_age_months, max_age_months, success,
          arg_min_months, arg_max_months, query_age, in_range, age_range,
          affects, committed, risk_areas, next_id,
          disease_outbreaks_table, alerts_table, outbreaks_arg, alerts_out,
          symptom_vars, patients_table, csv_file, pdf_files,
          form, steps, csv_returned,
          moh_response, who_response, areas_arg, areas_out, last_update,
          writer_pc, reader_pc, reader_call, reader_min, observed,
          committed_pairs, overlapped, now, remembered, between>>

(***************************************************************************)
(* Bounds of the explored inputs.                                          *)
(***************************************************************************)
MaxAgeMonths == 13      \* patient ages 0 and 11..MaxAgeMonths
MaxCases     == 52      \* case counts 0..MaxCases (plus the demo's and a large one)
MaxDeaths    == 6       \* death counts 0..MaxDeaths
MaxRows      == 4       \* rows the risk_areas table may hold
MaxSaveLen   == 2       \* records passed to one save_risk_areas call
LargeCount   == 1000000 \* a very large case / death count
HugeExp10    == 314     \* decimal exponent of a case count beyond the doubles
MaxNow       == 1       \* clock ticks explored
MaxAreas     == 2       \* records in a list given to the age filter
MaxOutbreaks == 2       \* outbreaks in a list given to check_alerts
MaxOutbreakRows == 3    \* rows of the disease_outbreaks table
MaxAlertRows == 6       \* rows of the alerts table

(***************************************************************************)
(* dict.get(key, default) on a mapping that may lack the key.              *)
(***************************************************************************)
Get(d, k, default) == IF k \in DOMAIN d THEN d[k] ELSE default

EmptyDict == [k \in {} |-> FALSE]

(***************************************************************************)
(* MeningitisWorkflow                                                      *)
(***************************************************************************)
MeningitisKeys ==
    {"coma", "stiff_neck", "bulging_fontanelle", "lp_clear",
     "csf_wbc_raised", "gram_positive", "test_done"}

DefiniteMeningitis ==
    "Definite Meningitis: Treat with Ceftriaxone. Steroids NOT indicated."
ProbableMeningitis ==
    "Probable Meningitis: Treat with Ceftriaxone. Steroids NOT indicated. Review CSF results."
PossibleMeningitis ==
    "Possible Meningitis: Treat with Ceftriaxone. Seek senior review."
NoMeningitisSigns ==
    "No clear meningitis signs based on provided data."

\* __init__ with keyword arguments kw; an omitted argument takes its default.
MeningitisWorkflow_init(kw) ==
    [coma               |-> Get(kw, "coma", FALSE),
     stiff_neck         |-> Get(kw, "stiff_neck", FALSE),
     bulging_fontanelle |-> Get(kw, "bulging_fontanelle", FALSE),
     lp_clear           |-> Get(kw, "lp_clear", TRUE),
     csf_wbc_raised     |-> Get(kw, "csf_wbc_raised", FALSE),
     gram_positive      |-> Get(kw, "gram_positive", FALSE),
     test_done          |-> Get(kw, "test_done", TRUE)]

\* Variant: the turbid-CSF trigger is left out of the first test.
MeningitisClassify_NoLpTrigger(self) ==
    IF self.coma \/ self.stiff_neck \/ self.bulging_fontanelle
    THEN DefiniteMeningitis
    ELSE IF self.csf_wbc_raised \/ self.gram_positive
    THEN ProbableMeningitis
    ELSE IF self.test_done
    THEN PossibleMeningitis
    ELSE NoMeningitisSigns

\* Variant: the test_done tier is tried before the Probable tier.
MeningitisClassify_TestDoneFirst(self) ==
    IF self.coma \/ self.stiff_neck \/ self.bulging_fontanelle \/ ~self.lp_clear
    THEN DefiniteMeningitis
    ELSE IF self.test_done
    THEN PossibleMeningitis
    ELSE IF self.csf_wbc_raised \/ self.gram_positive
    THEN ProbableMeningitis
    ELSE NoMeningitisSigns

\* Variant: the last tier does not look at test_done.
MeningitisClassify_AlwaysPossible(self) ==
    IF self.coma \/ self.stiff_neck \/ self.bulging_fontanelle \/ ~self.lp_clear
    THEN DefiniteMeningitis
    ELSE IF self.csf_wbc_raised \/ self.gram_positive
    THEN ProbableMeningitis
    ELSE PossibleMeningitis

MeningitisWorkflow_classify(self) ==
    IF self.coma \/ self.stiff_neck \/ self.bulging_fontanelle \/ ~self.lp_clear
    THEN DefiniteMeningitis
    ELSE IF self.csf_wbc_raised \/ self.gram_positive
    THEN ProbableMeningitis
    ELSE IF self.test_done
    THEN PossibleMeningitis
    ELSE NoMeningitisSigns

\* Keyword-argument sets tried: every full assignment, and no argument at all.
MeningitisInputs == [MeningitisKeys -> BOOLEAN] \cup {EmptyDict}

(***************************************************************************)
(* DiarrhoeaWorkflow                                                       *)
(***************************************************************************)
ShockKeys ==
    {"weak_or_absent_pulse", "cold_hands_temp_gradient",
     "capillary_refill_gt_3s", "slow_skin_pinch"}
SevereKeys   == {"sunken_eyes", "unable_to_drink", "skin_pinch_gt_2s"}
ModerateKeys == {"sunken_eyes", "restless_irritable", "skin_pinch_1_2s"}
DiarrhoeaKeys == ShockKeys \cup SevereKeys \cup ModerateKeys

ShockVerdict ==
    "Shock: IV Ringer's Lactate 20ml/kg over 15 min -> Plan C Step 1"
SevereDehydrationPrefix ==
    "Severe Dehydration: Plan C Step 2 -> 70ml/kg IV Ringer's over "
SomeDehydration ==
    "Some Dehydration: Plan B -> ORS 75ml/kg over 4 hours"
NoDehydration ==
    "No Dehydration: Plan A -> ORS 10ml/kg after each stool, continue feeding"

DiarrhoeaWorkflow_init(age_months, symptoms) ==
    [age |-> age_months, symptoms |-> symptoms]

\* all([...]) / any([...]) / sum([...]) over the flags read with s.get(k, False)
AllOf(s, keys)   == \A k \in keys : Get(s, k, FALSE)
AnyOf(s, keys)   == \E k \in keys : Get(s, k, FALSE)
CountOf(s, keys) == Cardinality({k \in keys : Get(s, k, FALSE)})

\* Variant: the Severe tier is tried before the Shock tier.
DiarrhoeaClassify_SevereFirst(self) ==
    LET s == self.symptoms IN
    IF AnyOf(s, SevereKeys)
    THEN SevereDehydrationPrefix \o (IF self.age >= 12 THEN "2.5hrs" ELSE "4hrs")
    ELSE IF AllOf(s, ShockKeys)
    THEN ShockVerdict
    ELSE IF CountOf(s, ModerateKeys) >= 2
    THEN SomeDehydration
    ELSE NoDehydration

\* Variant: the age boundary is strict (a 12-month-old gets the infant rate).
DiarrhoeaClassify_StrictAge(self) ==
    LET s == self.symptoms IN
    IF AllOf(s, ShockKeys)
    THEN ShockVerdict
    ELSE IF AnyOf(s, SevereKeys)
    THEN SevereDehydrationPrefix \o (IF self.age > 12 THEN "2.5hrs" ELSE "4hrs")
    ELSE IF CountOf(s, ModerateKeys) >= 2
    THEN SomeDehydration
    ELSE NoDehydration

\* Variant: all three moderate signs are required.
DiarrhoeaClassify_ThreeSigns(self) ==
    LET s == self.symptoms IN
    IF AllOf(s, ShockKeys)
    THEN ShockVerdict
    ELSE IF AnyOf(s, SevereKeys)
    THEN SevereDehydrationPrefix \o (IF self.age >= 12 THEN "2.5hrs" ELSE "4hrs")
    ELSE IF CountOf(s, ModerateKeys) >= 3
    THEN SomeDehydration
    ELSE NoDehydration

\* Variant: sunken_eyes is not one of the severe signs.
DiarrhoeaClassify_SunkenNotSevere(self) ==
    LET s == self.symptoms IN
    IF AllOf(s, ShockKeys)
    THEN ShockVerdict
    ELSE IF AnyOf(s, SevereKeys \ {"sunken_eyes"})
    THEN SevereDehydrationPrefix \o (IF self.age >= 12 THEN "2.5hrs" ELSE "4hrs")
    ELSE IF CountOf(s, ModerateKeys) >= 2
    THEN SomeDehydration
    ELSE NoDehydration

DiarrhoeaWorkflow_classify(self) ==
    LET s == self.symptoms IN
    IF AllOf(s, ShockKeys)
    THEN ShockVerdict
    ELSE IF AnyOf(s, SevereKeys)
    THEN SevereDehydrationPrefix \o (IF self.age >= 12 THEN "2.5hrs" ELSE "4hrs")
    ELSE IF CountOf(s, ModerateKeys) >= 2
    THEN SomeDehydration
    ELSE NoDehydration

\* Symptom mappings tried: every full mapping, and every mapping that lists
\* only the signs that are present (the other keys are missing).
DiarrhoeaInputs ==
    [DiarrhoeaKeys -> BOOLEAN]
        \cup {[k \in K |-> TRUE] : K \in SUBSET DiarrhoeaKeys}

AgeMonthsInputs == {0} \cup (11..MaxAgeMonths)

(***************************************************************************)
(* str.lower() on a sequence of characters.                                *)
(***************************************************************************)
UpperCase ==
    <<"A","B","C","D","E","F","G","H","I","J","K","L","M",
      "N","O","P","Q","R","S","T","U","V","W","X","Y","Z">>
LowerCase ==
    <<"a","b","c","d","e","f","g","h","i","j","k","l","m",
      "n","o","p","q","r","s","t","u","v","w","x","y","z">>

LowerChar(ch) ==
    IF \E i \in 1..26 : UpperCase[i] = ch
    THEN LowerCase[CHOOSE i \in 1..26 : UpperCase[i] = ch]
    ELSE ch

Lower(str) == [i \in 1..Len(str) |-> LowerChar(str[i])]

meningitis_name == <<"m","e","n","i","n","g","i","t","i","s">>
diarrhoea_name  == <<"d","i","a","r","r","h","o","e","a">>

DiseaseInputs ==
    {meningitis_name,
     diarrhoea_name,
     <<"M","e","n","i","n","g","i","t","i","s">>,
     <<"M","E","N","I","N","G","I","T","I","S">>,
     <<"D","i","a","r","r","h","o","e","a">>,
     <<"d","I","A","R","R","H","O","E","A">>,
     <<"d","i","a","r","r","h","e","a">>,
     <<"c","h","o","l","e","r","a">>,
     <<"u","n","k","n","o","w","n","_","d","i","s","e","a","s","e">>}

(***************************************************************************)
(* EnhancedMOHScraper                                                      *)
(***************************************************************************)
\* __init__: the threshold table
InitialRiskThresholds ==
    [d \in {meningitis_name, diarrhoea_name} |->
        IF d = meningitis_name
        THEN [high   |-> [cases_per_100k |-> 10, deaths |-> 2],
              medium |-> [cases_per_100k |-> 5,  deaths |-> 1],
              low    |-> [cases_per_100k |-> 1,  deaths |-> 0]]
        ELSE [high   |-> [cases_per_100k |-> 50, deaths |-> 5],
              medium |-> [cases_per_100k |-> 20, deaths |-> 2],
              low    |-> [cases_per_100k |-> 5,  deaths |-> 0]]]

(***************************************************************************)
(* (cases / 100000) * 100000 in IEEE-754 double arithmetic (round to       *)
(* nearest, ties to even), for 0 < cases < 2^30; larger counts are given   *)
(* as cases * 10^e, and the true division raises OverflowError when its    *)
(* quotient is beyond the largest double (about 1.8 * 10^308).             *)
(*   x = fl(cases / P) = q / 2^k with q the 53-bit significand, so         *)
(*   q * P = cases * 2^k - e, where e is the signed remainder of           *)
(*   cases * 2^k modulo P nearest to 0; the exact product x * P is         *)
(*   cases - e / 2^k, which rounds to cases iff |e| / 2^k is at most half  *)
(*   the spacing of the doubles next to cases, and otherwise to a double   *)
(*   strictly between cases - 1 and cases + 1.                             *)
(* The value is represented by the integer it is nearest to (near) and the *)
(* side on which it lies (dir: -1 below, 0 equal, 1 above).                *)
(***************************************************************************)
POPULATION == 100000

\* m with 2^m <= c / POPULATION < 2^(m+1)
QuotientExponent(c) ==
    IF c >= POPULATION
    THEN CHOOSE m \in 0..13 :
             POPULATION * 2^m <= c /\ c < POPULATION * 2^(m + 1)
    ELSE 0 - (CHOOSE j \in 1..17 :
                 POPULATION <= c * 2^j /\ c * 2^j < 2 * POPULATION)

\* l with 2^l <= c < 2^(l+1)
Log2Floor(c) == CHOOSE l \in 0..29 : 2^l <= c /\ c < 2^(l + 1)

\* (r * 2^k) mod POPULATION, fourteen doublings at a time
RECURSIVE DoubleMod(_, _)
DoubleMod(r, k) ==
    IF k <= 14 THEN (r * 2^k) % POPULATION
    ELSE DoubleMod((r * 2^14) % POPULATION, k - 14)

FloatRoundTrip(c) ==
    LET m     == QuotientExponent(c)
        k     == 52 - m
        r     == DoubleMod(c % POPULATION, k)
        e     == IF 2 * r <= POPULATION THEN r ELSE r - POPULATION
        l     == Log2Floor(c)
        hUp   == 2^(l - m - 1)
        hDown == IF 2^l = c THEN hUp \div 2 ELSE hUp
    IN  IF e = 0 THEN 0
        ELSE IF e > 0 THEN (IF e <= hDown THEN 0 ELSE -1)
        ELSE (IF 0 - e <= hUp THEN 0 ELSE 1)

POPULATION_EXP10 == 5    \* POPULATION = 10^5
DBL_MAX_10_EXP   == 308  \* 10^308 is a double, 10^309 is not

\* cases_per_100k = (cases / 100000) * 100000 if cases > 0 else 0
\* for the count c * 10^e, with e = 0 or e so large that the quotient is at
\* least 10^(DBL_MAX_10_EXP + 1)
CasesPer100k(c, e) ==
    CASE c <= 0 ->
            [near |-> 0, dir |-> 0, overflow |-> FALSE]
      [] c > 0 /\ e = 0 ->
            [near |-> c, dir |-> FloatRoundTrip(c), overflow |-> FALSE]
      [] c > 0 /\ e - POPULATION_EXP10 > DBL_MAX_10_EXP ->
            [near |-> 0, dir |-> 0, overflow |-> TRUE]

\* What the call does instead of returning a level when the division overflows
RaisesOverflowError == "raise OverflowError"

\* x >= t for the float x and the integer threshold t
FloatGE(x, t) ==
    \/ x.near > t
    \/ x.near = t /\ x.dir >= 0

\* Variant: a case rate equal to a threshold does not reach the tier.
CalculateRiskLevel_Strict(thresholds, name, c, e, dth) ==
    IF name \notin DOMAIN thresholds
    THEN "Medium"
    ELSE LET t    == thresholds[name]
             rate == CasesPer100k(c, e)
         IN  IF rate.overflow THEN RaisesOverflowError
             ELSE IF (FloatGE(rate, t.high.cases_per_100k)
                    /\ rate.near # t.high.cases_per_100k)
                \/ dth >= t.high.deaths
             THEN "High"
             ELSE IF (FloatGE(rate, t.medium.cases_per_100k)
                         /\ rate.near # t.medium.cases_per_100k)
                     \/ dth >= t.medium.deaths
             THEN "Medium"
             ELSE "Low"

\* Variant: a disease without thresholds is rated Low.
CalculateRiskLevel_DefaultLow(thresholds, name, c, e, dth) ==
    IF name \notin DOMAIN thresholds
    THEN "Low"
    ELSE LET t    == thresholds[name]
             rate == CasesPer100k(c, e)
         IN  IF rate.overflow THEN RaisesOverflowError
             ELSE IF FloatGE(rate, t.high.cases_per_100k) \/ dth >= t.high.deaths
             THEN "High"
             ELSE IF FloatGE(rate, t.medium.cases_per_100k)
                     \/ dth >= t.medium.deaths
             THEN "Medium"
             ELSE "Low"

\* _calculate_risk_level(disease, cases, deaths) on the table self.risk_thresholds
\* Variant: the default level depends on the clock
CalculateRiskLevel_ClockDependent(thresholds, name, c, e, dth) ==
    IF ~(name \in DOMAIN thresholds)
    THEN IF now = 0 THEN "Medium" ELSE "Low"
    ELSE LET t == thresholds[name]
             rate == CasesPer100k(c, e)
         IN  IF rate.overflow THEN RaisesOverflowError
             ELSE IF FloatGE(rate, t.high.cases_per_100k) \/ dth >= t.high.deaths
                  THEN "High"
             ELSE IF FloatGE(rate, t.medium.cases_per_100k) \/ dth >= t.medium.deaths
                  THEN "Medium"
             ELSE "Low"

CalculateRiskLevel(thresholds, name, c, e, dth) ==
    IF name \notin DOMAIN thresholds
    THEN "Medium"
    ELSE LET t    == thresholds[name]
             rate == CasesPer100k(c, e)
         IN  IF rate.overflow THEN RaisesOverflowError
             ELSE IF FloatGE(rate, t.high.cases_per_100k) \/ dth >= t.high.deaths
             THEN "High"
             ELSE IF FloatGE(rate, t.medium.cases_per_100k)
                     \/ dth >= t.medium.deaths
             THEN "Medium"
             ELSE "Low"

\* The case counts of demo_risk_classification's scenarios
DemoCases == {25, 8, 2, 100, 35}

CasesInputs  == (0..MaxCases) \cup DemoCases \cup {LargeCount}
\* Case counts tried, as <<c, e>> for c * 10^e
CountInputs  == {<<c, 0>> : c \in CasesInputs} \cup {<<1, HugeExp10>>}
DeathsInputs == (0..MaxDeaths) \cup {LargeCount}

(***************************************************************************)
(* AgeConstraintManager                                                    *)
(***************************************************************************)
DEFAULT_MIN_AGE == 1
DEFAULT_MAX_AGE == 60
MAX_AGE_LIMIT   == 120

\* set_age_range's validation: TRUE when the arguments are rejected
RangeRejected(min_months, max_months) ==
    min_months < 0 \/ max_months < min_months \/ max_months > MAX_AGE_LIMIT

\* Integer arguments tried for the constructor and for set_age_range
AgeArgs == {-1, 0, 6, 10, 24, 30, MAX_AGE_LIMIT, MAX_AGE_LIMIT + 1}

\* Variant: the minimum is stored before the maximum is validated.
SetAgeRange_PartialWrite(self, lo, hi) ==
    IF lo < 0
    THEN [min_age_months |-> self.min_age_months,
          max_age_months |-> self.max_age_months, ret |-> FALSE]
    ELSE IF hi < lo \/ hi > MAX_AGE_LIMIT
    THEN [min_age_months |-> lo,
          max_age_months |-> self.max_age_months, ret |-> FALSE]
    ELSE [min_age_months |-> lo, max_age_months |-> hi, ret |-> TRUE]

\* Variant: the upper limit of 120 months is not enforced.
SetAgeRange_NoUpperLimit(self, lo, hi) ==
    IF lo < 0 \/ hi < lo
    THEN [min_age_months |-> self.min_age_months,
          max_age_months |-> self.max_age_months, ret |-> FALSE]
    ELSE [min_age_months |-> lo, max_age_months |-> hi, ret |-> TRUE]

\* set_age_range(min_months, max_months): the manager's fields after the call
\* and the value returned
AgeConstraintManager_set_age_range(self, lo, hi) ==
    IF RangeRejected(lo, hi)
    THEN [min_age_months |-> self.min_age_months,
          max_age_months |-> self.max_age_months, ret |-> FALSE]
    ELSE [min_age_months |-> lo, max_age_months |-> hi, ret |-> TRUE]

\* get_age_range()
AgeConstraintManager_get_age_range(self) ==
    <<self.min_age_months, self.max_age_months>>

\* Variant: the upper bound is exclusive.
IsAgeInRange_ExclusiveMax(self, a) ==
    self.min_age_months <= a /\ a < self.max_age_months

\* is_age_in_range(age_months)
AgeConstraintManager_is_age_in_range(self, a) ==
    self.min_age_months <= a /\ a <= self.max_age_months

\* Ages asked about: the arguments above, their neighbours, and the demo's ages
AgeQueryInputs ==
    UNION {{a - 1, a, a + 1} : a \in AgeArgs} \cup {3, 12, 18, 66}

\* Variant: the name is compared as given.
AffectsTargetAgeGroup_CaseSensitive(name) ==
    name \in {meningitis_name, diarrhoea_name}

\* _affects_target_age_group(disease)
EnhancedMOHScraper_affects_target_age_group(name) ==
    Lower(name) \in {meningitis_name, diarrhoea_name}

(***************************************************************************)
(* RiskAreaDatabase: the risk_areas table.  A row carries the columns      *)
(* id, location, disease, risk_level, cases, deaths, source_url; the       *)
(* remaining columns are bound from the record in the same way.            *)
(***************************************************************************)
\* Columns of risk_areas under a PRIMARY KEY or UNIQUE constraint
\* (init_database declares none besides id)
UniqueColumnSets == {{"id"}}

\* INSERT OR REPLACE: rows that agree with the new row on all columns of a
\* uniqueness constraint are deleted, then the new row is inserted.
InsertOrReplace(table, row) ==
    LET conflicts(r) == \E cols \in UniqueColumnSets : \A c \in cols : r[c] = row[c]
    IN  Append(SelectSeq(table, LAMBDA r : ~conflicts(r)), row)

\* The row bound from a RiskArea; id is not supplied, so AUTOINCREMENT
\* assigns the next one.
RowOf(area, id) ==
    [id |-> id, location |-> area.location, disease |-> area.disease,
     risk_level |-> area.risk_level, cases |-> area.cases,
     deaths |-> area.deaths, source_url |-> area.source_url]

\* save_risk_areas(risk_areas): the table and the counter after the loop
RECURSIVE RiskAreaDatabase_save_risk_areas(_, _, _)
RiskAreaDatabase_save_risk_areas(table, id, areas) ==
    IF areas = << >>
    THEN [table |-> table, next_id |-> id]
    ELSE RiskAreaDatabase_save_risk_areas(
             InsertOrReplace(table, RowOf(Head(areas), id)), id + 1, Tail(areas))

\* Records saved: two fetches of the Turkana outbreak and one other outbreak
AreaInputs ==
    {[location |-> "Turkana County", disease |-> meningitis_name,
      risk_level |-> "High", cases |-> 67, deaths |-> 4, source_url |-> "MOH Kenya"],
     [location |-> "Turkana County", disease |-> meningitis_name,
      risk_level |-> "High", cases |-> 70, deaths |-> 5, source_url |-> "MOH Kenya"],
     [location |-> "Mombasa County", disease |-> diarrhoea_name,
      risk_level |-> "Medium", cases |-> 234, deaths |-> 2, source_url |-> "MOH Kenya"]}

RECURSIVE SeqsUpTo(_, _)
SeqsUpTo(S, n) ==
    IF n = 0 THEN {<< >>}
    ELSE LET shorter == SeqsUpTo(S, n - 1)
         IN  shorter \cup {Append(q, x) : q \in shorter, x \in S}

SaveInputs == SeqsUpTo(AreaInputs, MaxSaveLen)

(***************************************************************************)
(* EnhancedMOHScraper: scraping, mock data and the age filter.  A page is  *)
(* what the request gave: ok (no RequestException and status 200) and the  *)
(* matched sections; a section is given by what its text holds: the        *)
(* disease keywords it mentions, its location and its counts.              *)
(***************************************************************************)
None == [none |-> TRUE]

diarrhea_name == <<"d","i","a","r","r","h","e","a">>
cholera_name  == <<"c","h","o","l","e","r","a">>

\* diseases_of_interest, in the order the loop tries them
diseases_of_interest ==
    <<meningitis_name, diarrhoea_name, diarrhea_name, cholera_name>>

\* found_disease of _extract_risk_area_info, << >> when no keyword matches
FoundDisease(mentions) ==
    LET hits == {i \in 1..Len(diseases_of_interest) :
                    diseases_of_interest[i] \in mentions}
    IN  IF hits = {} THEN << >>
        ELSE LET first == diseases_of_interest[CHOOSE i \in hits :
                                                  \A j \in hits : i <= j]
             IN  IF first \in {diarrhoea_name, diarrhea_name, cholera_name}
                 THEN diarrhoea_name
                 ELSE first

\* _extract_risk_area_info(section, source); any exception gives None
EnhancedMOHScraper_extract_risk_area_info(thresholds, section, source) ==
    LET found_disease == FoundDisease(section.mentions)
    IN  IF found_disease = << >> THEN None
        ELSE LET level == CalculateRiskLevel(thresholds, found_disease,
                              section.cases, section.cases_exp10, section.deaths)
             IN  IF level = RaisesOverflowError THEN None
                 ELSE [location |-> section.location, disease |-> found_disease,
                       risk_level |-> level, cases |-> section.cases,
                       deaths |-> section.deaths, source_url |-> source]

MOH_SECTION_LIMIT == 10
WHO_ARTICLE_LIMIT == 8

\* The records extracted from the first `limit` sections of a page
RECURSIVE ExtractAll(_, _, _)
ExtractAll(thresholds, sections, source) ==
    IF sections = << >> THEN << >>
    ELSE LET risk_area == EnhancedMOHScraper_extract_risk_area_info(
                              thresholds, Head(sections), source)
             rest == ExtractAll(thresholds, Tail(sections), source)
         IN  IF risk_area = None THEN rest ELSE <<risk_area>> \o rest

FirstN(q, n) == SubSeq(q, 1, IF Len(q) < n THEN Len(q) ELSE n)

EnhancedMOHScraper_get_mock_kenya_data ==
    <<[location |-> "Turkana County", disease |-> meningitis_name,
       risk_level |-> "High", cases |-> 67, deaths |-> 4,
       source_url |-> "MOH Kenya"],
      [location |-> "Mombasa County", disease |-> diarrhoea_name,
       risk_level |-> "Medium", cases |-> 234, deaths |-> 2,
       source_url |-> "MOH Kenya"],
      [location |-> "Kisumu County", disease |-> diarrhoea_name,
       risk_level |-> "Low", cases |-> 45, deaths |-> 0,
       source_url |-> "MOH Kenya"]>>

EnhancedMOHScraper_get_mock_who_data ==
    <<[location |-> "Northern Uganda", disease |-> meningitis_name,
       risk_level |-> "High", cases |-> 89, deaths |-> 6,
       source_url |-> "WHO AFRO"],
      [location |-> "Dar es Salaam", disease |-> diarrhoea_name,
       risk_level |-> "Medium", cases |-> 156, deaths |-> 1,
       source_url |-> "WHO AFRO"]>>

\* Variant: the mock records are added whatever was scraped
ScrapeMohKenya_AlwaysMock(thresholds, page) ==
    LET scraped ==
            IF page.ok
            THEN ExtractAll(thresholds, FirstN(page.sections, MOH_SECTION_LIMIT),
                            "MOH Kenya")
            ELSE << >>
    IN  scraped \o EnhancedMOHScraper_get_mock_kenya_data

\* scrape_moh_kenya_outbreaks()
EnhancedMOHScraper_scrape_moh_kenya_outbreaks(thresholds, page) ==
    LET scraped ==
            IF page.ok
            THEN ExtractAll(thresholds, FirstN(page.sections, MOH_SECTION_LIMIT),
                            "MOH Kenya")
            ELSE << >>
    IN  IF scraped = << >> THEN EnhancedMOHScraper_get_mock_kenya_data
        ELSE scraped

\* scrape_who_afro_data()
EnhancedMOHScraper_scrape_who_afro_data(thresholds, page) ==
    LET scraped ==
            IF page.ok
            THEN ExtractAll(thresholds, FirstN(page.sections, WHO_ARTICLE_LIMIT),
                            "WHO AFRO")
            ELSE << >>
    IN  IF scraped = << >> THEN EnhancedMOHScraper_get_mock_who_data
        ELSE scraped

\* Variant: the admitted records are prepended, not appended
RECURSIVE FilterByAgeConstraints_Prepending(_)
FilterByAgeConstraints_Prepending(area_list) ==
    IF area_list = << >> THEN << >>
    ELSE LET rest == FilterByAgeConstraints_Prepending(Tail(area_list))
         IN  IF EnhancedMOHScraper_affects_target_age_group(Head(area_list).disease)
             THEN Append(rest, Head(area_list))
             ELSE rest

\* _filter_by_age_constraints(risk_areas)
EnhancedMOHScraper_filter_by_age_constraints(area_list) ==
    SelectSeq(area_list,
              LAMBDA area : EnhancedMOHScraper_affects_target_age_group(area.disease))

\* get_all_risk_areas()
EnhancedMOHScraper_get_all_risk_areas(thresholds, moh_page, who_page) ==
    LET all_areas ==
            EnhancedMOHScraper_scrape_moh_kenya_outbreaks(thresholds, moh_page)
                \o EnhancedMOHScraper_scrape_who_afro_data(thresholds, who_page)
    IN  EnhancedMOHScraper_filter_by_age_constraints(all_areas)

\* Sections tried: no keyword, one keyword, two keywords; counts below and
\* at the thresholds and beyond the doubles
SectionInputs ==
    {[mentions |-> m, location |-> "Nairobi", cases |-> c[1],
      cases_exp10 |-> c[2], deaths |-> 0] :
        m \in {{}, {meningitis_name}, {cholera_name, meningitis_name}},
        c \in {<<0, 0>>, <<25, 0>>, <<1, HugeExp10>>}}

\* Pages tried: a failed request, no section, one section, two sections
PageInputs ==
    {[ok |-> FALSE, sections |-> << >>], [ok |-> TRUE, sections |-> << >>]}
        \cup {[ok |-> TRUE, sections |-> <<x>>] : x \in SectionInputs}
        \cup {[ok |-> TRUE, sections |-> <<x, y>>] :
                 x \in {z \in SectionInputs : z.mentions = {}},
                 y \in {z \in SectionInputs : z.cases = 25}}

\* Records given to the filter: relevant, relevant in another casing, not
\* relevant
FilterAreaInputs ==
    {[location |-> "Turkana County", disease |-> meningitis_name,
      risk_level |-> "High", cases |-> 67, deaths |-> 4, source_url |-> "MOH Kenya"],
     [location |-> "Mombasa County", disease |-> <<"D","i","a","r","r","h","o","e","a">>,
      risk_level |-> "Medium", cases |-> 234, deaths |-> 2, source_url |-> "MOH Kenya"],
     [location |-> "Dar es Salaam", disease |-> cholera_name,
      risk_level |-> "Medium", cases |-> 156, deaths |-> 1, source_url |-> "WHO AFRO"]}

FilterInputs == SeqsUpTo(FilterAreaInputs, MaxAreas)

(***************************************************************************)
(* State machine                                                           *)
(***************************************************************************)
\* clinical_assessment_results.csv does not exist
NoFile == [exists |-> FALSE, rows |-> << >>]

\* The page has not been rendered
NoForm == [rendered |-> FALSE]

\* No request has been made
NoResponse == [ok |-> FALSE, sections |-> << >>]

\* No classifier call has been remembered yet
NoCall == [kind |-> "", input |-> << >>, outcome |-> ""]

NoWorkflow   == MeningitisWorkflow_init(EmptyDict)
NoAssessment == DiarrhoeaWorkflow_init(0, EmptyDict)

Init ==
    /\ op = "idle"
    /\ meningitis = NoWorkflow
    /\ diarrhoea = NoAssessment
    /\ result = ""
    /\ risk_thresholds = InitialRiskThresholds
    /\ scraper_min_age_months = DEFAULT_MIN_AGE
    /\ scraper_max_age_months = DEFAULT_MAX_AGE
    /\ disease = << >>
    /\ cases = 0
    /\ cases_exp10 = 0
    /\ deaths = 0
    /\ risk_level = ""
    /\ raised = ""
    /\ min_age_months = DEFAULT_MIN_AGE
    /\ max_age_months = DEFAULT_MAX_AGE
    /\ success = FALSE
    /\ arg_min_months = 0
    /\ arg_max_months = 0
    /\ query_age = 0
    /\ in_range = FALSE
    /\ age_range = <<0, 0>>
    /\ affects = FALSE
    /\ committed = <<DEFAULT_MIN_AGE, DEFAULT_MAX_AGE>>
    /\ risk_areas = << >>
    /\ next_id = 1
    /\ disease_outbreaks_table = << >>
    /\ alerts_table = << >>
    /\ outbreaks_arg = << >>
    /\ alerts_out = << >>
    /\ symptom_vars = EmptyDict
    /\ patients_table = << >>
    /\ csv_file = NoFile
    /\ pdf_files = {}
    /\ form = NoForm
    /\ steps = << >>
    /\ csv_returned = ""
    /\ moh_response = NoResponse
    /\ who_response = NoResponse
    /\ areas_arg = << >>
    /\ areas_out = << >>
    /\ last_update = << >>
    /\ writer_pc = "idle"
    /\ reader_pc = "idle"
    /\ reader_call = ""
    /\ reader_min = 0
    /\ observed = << >>
    /\ committed_pairs = {<<DEFAULT_MIN_AGE, DEFAULT_MAX_AGE>>}
    /\ overlapped = FALSE
    /\ now = 0
    /\ remembered = NoCall
    /\ between = {}

scraperVars == <<risk_thresholds, scraper_min_age_months, scraper_max_age_months>>
managerVars == <<min_age_months, max_age_months>>
riskCallVars == <<disease, cases, cases_exp10, deaths, risk_level, raised>>
workflowVars == <<meningitis, diarrhoea, result>>
ageArgVars == <<arg_min_months, arg_max_months>>
ageQueryVars == <<query_age, in_range, age_range>>
callVars == <<workflowVars, riskCallVars, success, ageArgVars, ageQueryVars, affects>>
\* The tables of clinical_assessment.db, and the transient state of the
\* calls and pages of pcat.py
assessStoreVars == <<symptom_vars, patients_table, csv_file, pdf_files>>
assessCallVars == <<form, steps, csv_returned>>
alertCallVars == <<outbreaks_arg, alerts_out>>
pcatStoreVars == <<disease_outbreaks_table, alerts_table, assessStoreVars>>
pcatCallVars == <<alertCallVars, assessCallVars>>
storeVars == <<risk_areas, next_id, pcatStoreVars>>
\* State that the calls on the classifiers and on the age manager never touch
scrapeVars == <<moh_response, who_response, areas_arg, areas_out>>
taskVars == <<writer_pc, reader_pc, reader_call, reader_min, observed,
              committed_pairs, overlapped>>
auxVars == <<storeVars, scrapeVars, last_update, taskVars, pcatCallVars>>
\* The clock and the history of calls
historyVars == <<now, remembered, between>>

\* The AgeConstraintManager instance as an object
age_manager ==
    [min_age_months |-> min_age_months, max_age_months |-> max_age_months]

\* MeningitisWorkflow(**kw).classify()
ClassifyMeningitis(kw) ==
    /\ op = "idle"
    /\ op' = "MeningitisWorkflow.classify"
    /\ meningitis' = MeningitisWorkflow_init(kw)
    /\ result' = MeningitisWorkflow_classify(meningitis')
    /\ UNCHANGED <<diarrhoea, scraperVars, riskCallVars, managerVars, success>>
    /\ UNCHANGED <<ageArgVars, ageQueryVars, affects, committed>>
    /\ UNCHANGED auxVars

\* DiarrhoeaWorkflow(age_months, symptoms).classify()
ClassifyDiarrhoea(age_months, symptoms) ==
    /\ op = "idle"
    /\ op' = "DiarrhoeaWorkflow.classify"
    /\ diarrhoea' = DiarrhoeaWorkflow_init(age_months, symptoms)
    /\ result' = DiarrhoeaWorkflow_classify(diarrhoea')
    /\ UNCHANGED <<meningitis, scraperVars, riskCallVars, managerVars, success>>
    /\ UNCHANGED <<ageArgVars, ageQueryVars, affects, committed>>
    /\ UNCHANGED auxVars

\* Variant: a disease that is not in the table is entered into it, with the
\* thresholds of diarrhoea
CalculateRisk_LearnsDisease(name, c, e, dth) ==
    LET outcome == CalculateRiskLevel(risk_thresholds, name, c, e, dth)
    IN
    /\ op = "idle"
    /\ op' = "_calculate_risk_level"
    /\ disease' = name
    /\ cases' = c
    /\ cases_exp10' = e
    /\ deaths' = dth
    /\ risk_level' = IF outcome = RaisesOverflowError THEN "" ELSE outcome
    /\ raised' = IF outcome = RaisesOverflowError THEN "OverflowError" ELSE ""
    /\ risk_thresholds' =
           [n \in DOMAIN risk_thresholds \cup {name} |->
               IF n \in DOMAIN risk_thresholds THEN risk_thresholds[n]
               ELSE risk_thresholds[diarrhoea_name]]
    /\ UNCHANGED <<scraper_min_age_months, scraper_max_age_months>>
    /\ UNCHANGED <<meningitis, diarrhoea, result, managerVars, success>>
    /\ UNCHANGED <<ageArgVars, ageQueryVars, affects, committed>>
    /\ UNCHANGED auxVars

\* scraper._calculate_risk_level(name, c * 10^e, dth)
CalculateRisk(name, c, e, dth) ==
    LET outcome == CalculateRiskLevel(risk_thresholds, name, c, e, dth)
    IN
    /\ op = "idle"
    /\ op' = "_calculate_risk_level"
    /\ disease' = name
    /\ cases' = c
    /\ cases_exp10' = e
    /\ deaths' = dth
    /\ risk_level' = IF outcome = RaisesOverflowError THEN "" ELSE outcome
    /\ raised' = IF outcome = RaisesOverflowError THEN "OverflowError" ELSE ""
    /\ UNCHANGED <<meningitis, diarrhoea, result, scraperVars, managerVars, success>>
    /\ UNCHANGED <<ageArgVars, ageQueryVars, affects, committed>>
    /\ UNCHANGED auxVars

\* scraper._affects_target_age_group(name)
AffectsTargetAgeGroup(name) ==
    /\ op = "idle"
    /\ op' = "_affects_target_age_group"
    /\ disease' = name
    /\ affects' = EnhancedMOHScraper_affects_target_age_group(name)
    /\ UNCHANGED <<workflowVars, scraperVars, managerVars, success>>
    /\ UNCHANGED <<cases, cases_exp10, deaths, risk_level, raised>>
    /\ UNCHANGED <<ageArgVars, ageQueryVars, committed>>
    /\ UNCHANGED auxVars

\* AgeConstraintManager(min_age_months, max_age_months): a new manager is built
ConstructAgeManager(min_months, max_months) ==
    /\ op = "idle"
    /\ op' = "AgeConstraintManager"
    /\ min_age_months' = min_months
    /\ max_age_months' = max_months
    /\ arg_min_months' = min_months
    /\ arg_max_months' = max_months
    /\ committed' = <<min_months, max_months>>
    /\ UNCHANGED <<meningitis, diarrhoea, result, scraperVars, riskCallVars, success>>
    /\ UNCHANGED <<ageQueryVars, affects>>
    /\ UNCHANGED auxVars

\* age_manager.set_age_range(min_months, max_months)
SetAgeRange(min_months, max_months) ==
    LET after == AgeConstraintManager_set_age_range(age_manager, min_months, max_months)
    IN  /\ op = "idle"
        /\ op' = "set_age_range"
        /\ arg_min_months' = min_months
        /\ arg_max_months' = max_months
        /\ min_age_months' = after.min_age_months
        /\ max_age_months' = after.max_age_months
        /\ success' = after.ret
        /\ committed' = IF after.ret THEN <<min_months, max_months>> ELSE committed
        /\ UNCHANGED <<meningitis, diarrhoea, result, scraperVars, riskCallVars>>
        /\ UNCHANGED <<ageQueryVars, affects>>
        /\ UNCHANGED auxVars

\* age_manager.get_age_range()
GetAgeRange ==
    /\ op = "idle"
    /\ op' = "get_age_range"
    /\ age_range' = AgeConstraintManager_get_age_range(age_manager)
    /\ UNCHANGED <<workflowVars, scraperVars, riskCallVars, managerVars, success>>
    /\ UNCHANGED <<ageArgVars, query_age, in_range, affects, committed>>
    /\ UNCHANGED auxVars

\* age_manager.is_age_in_range(a)
IsAgeInRange(a) ==
    /\ op = "idle"
    /\ op' = "is_age_in_range"
    /\ query_age' = a
    /\ in_range' = AgeConstraintManager_is_age_in_range(age_manager, a)
    /\ UNCHANGED <<workflowVars, scraperVars, riskCallVars, managerVars, success>>
    /\ UNCHANGED <<ageArgVars, age_range, affects, committed>>
    /\ UNCHANGED auxVars

\* The call returns: its local objects and its result go out of scope.
Return ==
    /\ op # "idle"
    /\ op' = "idle"
    /\ meningitis' = NoWorkflow
    /\ diarrhoea' = NoAssessment
    /\ result' = ""
    /\ disease' = << >>
    /\ cases' = 0
    /\ cases_exp10' = 0
    /\ deaths' = 0
    /\ risk_level' = ""
    /\ raised' = ""
    /\ success' = FALSE
    /\ arg_min_months' = 0
    /\ arg_max_months' = 0
    /\ query_age' = 0
    /\ in_range' = FALSE
    /\ age_range' = <<0, 0>>
    /\ affects' = FALSE
    /\ moh_response' = NoResponse
    /\ who_response' = NoResponse
    /\ areas_arg' = << >>
    /\ areas_out' = << >>
    /\ outbreaks_arg' = << >>
    /\ alerts_out' = << >>
    /\ form' = NoForm
    /\ steps' = << >>
    /\ csv_returned' = ""
    /\ UNCHANGED <<scraperVars, managerVars, committed, storeVars, last_update>>
    /\ UNCHANGED taskVars

\* scraper.get_all_risk_areas(), the two requests answering with the pages
GetAllRiskAreas(moh_page, who_page) ==
    /\ op = "idle"
    /\ op' = "get_all_risk_areas"
    /\ moh_response' = moh_page
    /\ who_response' = who_page
    /\ areas_out' = EnhancedMOHScraper_get_all_risk_areas(risk_thresholds,
                                                      moh_page, who_page)
    /\ UNCHANGED <<callVars, scraperVars, managerVars, committed>>
    /\ UNCHANGED <<storeVars, areas_arg, last_update, taskVars, pcatCallVars>>

\* scraper._filter_by_age_constraints(risk_areas)
FilterByAgeConstraints(risk_areas_arg) ==
    /\ op = "idle"
    /\ op' = "_filter_by_age_constraints"
    /\ areas_arg' = risk_areas_arg
    /\ UNCHANGED <<moh_response, who_response>>
    /\ areas_out' = EnhancedMOHScraper_filter_by_age_constraints(risk_areas_arg)
    /\ UNCHANGED <<callVars, scraperVars, managerVars, committed>>
    /\ UNCHANGED <<storeVars, last_update, taskVars, pcatCallVars>>

Next ==
    \/ /\ op = "idle"
       /\ \E kw \in MeningitisInputs : ClassifyMeningitis(kw)
       /\ UNCHANGED historyVars
    \/ /\ op = "idle"
       /\ \E a \in AgeMonthsInputs, s \in DiarrhoeaInputs : ClassifyDiarrhoea(a, s)
       /\ UNCHANGED historyVars
    \/ /\ op = "idle"
       /\ \E n \in DiseaseInputs, c \in CountInputs, d \in DeathsInputs :
              CalculateRisk(n, c[1], c[2], d)
       /\ UNCHANGED historyVars
    \/ /\ \E n \in DiseaseInputs : AffectsTargetAgeGroup(n)
       /\ UNCHANGED historyVars
    \/ /\ ConstructAgeManager(DEFAULT_MIN_AGE, DEFAULT_MAX_AGE)
       /\ UNCHANGED historyVars
    \/ /\ \E lo \in AgeArgs, hi \in AgeArgs : ConstructAgeManager(lo, hi)
       /\ UNCHANGED historyVars
    \/ /\ \E lo \in AgeArgs, hi \in AgeArgs : SetAgeRange(lo, hi)
       /\ UNCHANGED historyVars
    \/ /\ GetAgeRange
       /\ UNCHANGED historyVars
    \/ /\ \E a \in AgeQueryInputs : IsAgeInRange(a)
       /\ UNCHANGED historyVars
    \/ /\ op = "idle"
       /\ \E moh_page \in PageInputs, who_page \in PageInputs :
              GetAllRiskAreas(moh_page, who_page)
       /\ UNCHANGED historyVars
    \/ /\ op = "idle"
       /\ \E l \in FilterInputs : FilterByAgeConstraints(l)
       /\ UNCHANGED historyVars
    \/ /\ Return
       /\ UNCHANGED historyVars

Spec == Init /\ [][Next]_vars

(***************************************************************************)
(* Persistence of risk areas                                               *)
(***************************************************************************)
\* db.save_risk_areas(areas)
SaveRiskAreas(areas) ==
    LET after == RiskAreaDatabase_save_risk_areas(risk_areas, next_id, areas)
    IN  /\ op = "idle"
        /\ Len(risk_areas) + Len(areas) <= MaxRows
        /\ op' = "save_risk_areas"
        /\ risk_areas' = after.table
        /\ next_id' = after.next_id
        /\ UNCHANGED <<callVars, scraperVars, managerVars, committed, scrapeVars>>
        /\ UNCHANGED <<last_update, taskVars, pcatStoreVars, pcatCallVars>>

NextDatabase ==
    \/ /\ \E areas \in SaveInputs : SaveRiskAreas(areas)
       /\ UNCHANGED historyVars
    \/ /\ Return
       /\ UNCHANGED historyVars

SpecDatabase == Init /\ [][NextDatabase]_vars

(***************************************************************************)
(* Render passes of the Streamlit pages.  Streamlit runs the page function *)
(* from its first line on every interaction; a button is True only in the  *)
(* pass its click started.                                                 *)
(***************************************************************************)
\* The manager a page holds after its configuration block: a new
\* AgeConstraintManager(), on which set_age_range runs if the button was
\* pressed
ManagerOfPass(pressed, min_age, max_age) ==
    LET fresh == [min_age_months |-> DEFAULT_MIN_AGE,
                  max_age_months |-> DEFAULT_MAX_AGE]
    IN  IF pressed
        THEN AgeConstraintManager_set_age_range(fresh, min_age, max_age)
        ELSE [min_age_months |-> fresh.min_age_months,
              max_age_months |-> fresh.max_age_months, ret |-> FALSE]

\* One pass of a page with the age widgets: the widgets hold min_age and
\* max_age, 'Update Age Range' was pressed or not, and the page shows the
\* current range
ConfigurationPass(page, pressed, min_age, max_age) ==
    LET after == ManagerOfPass(pressed, min_age, max_age)
    IN  /\ op = "idle"
        /\ op' = page
        /\ arg_min_months' = min_age
        /\ arg_max_months' = max_age
        /\ min_age_months' = after.min_age_months
        /\ max_age_months' = after.max_age_months
        /\ success' = after.ret
        /\ committed' = <<after.min_age_months, after.max_age_months>>
        /\ age_range' = AgeConstraintManager_get_age_range(
                            [min_age_months |-> after.min_age_months,
                             max_age_months |-> after.max_age_months])
        /\ last_update' = IF after.ret THEN <<min_age, max_age>> ELSE last_update
        /\ UNCHANGED <<workflowVars, riskCallVars, scraperVars>>
        /\ UNCHANGED <<query_age, in_range, affects>>
        /\ UNCHANGED <<storeVars, scrapeVars, historyVars, taskVars, pcatCallVars>>

\* create_streamlit_app()
CreateStreamlitApp(pressed, min_age, max_age) ==
    ConfigurationPass("create_streamlit_app", pressed, min_age, max_age)

\* enhanced_disease_monitoring_page()
EnhancedDiseaseMonitoringPage(pressed, min_age, max_age) ==
    ConfigurationPass("enhanced_disease_monitoring_page", pressed, min_age, max_age)

\* enhanced_emergency_alerts_page(): a new EnhancedAlertSystem, whose new
\* manager's range is shown
EnhancedEmergencyAlertsPage ==
    ConfigurationPass("enhanced_emergency_alerts_page", FALSE, 0, 0)

\* Values of the two number_input widgets: 0..120, the maximum not below
\* the minimum
WidgetAges == {0, 1, 6, 24, DEFAULT_MAX_AGE, MAX_AGE_LIMIT}
WidgetInputs == {w \in WidgetAges \X WidgetAges : w[1] <= w[2]}

NextRender ==
    \/ \E pressed \in BOOLEAN, w \in WidgetInputs :
           CreateStreamlitApp(pressed, w[1], w[2])
    \/ \E pressed \in BOOLEAN, w \in WidgetInputs :
           EnhancedDiseaseMonitoringPage(pressed, w[1], w[2])
    \/ EnhancedEmergencyAlertsPage
    \/ /\ Return
       /\ UNCHANGED historyVars

SpecRender == Init /\ [][NextRender]_vars

(***************************************************************************)
(* One AgeConstraintManager shared by two tasks: one runs set_age_range,   *)
(* the other get_age_range or is_age_in_range.  There is no lock; a task   *)
(* switch can fall between any two loads or stores of the attributes.      *)
(***************************************************************************)
ConcurrentAgeArgs == {<<6, 24>>, <<10, 30>>, <<30, 10>>}
ConcurrentQueryAges == {0, 8, 26}

otherCallVars ==
    <<workflowVars, riskCallVars, ageQueryVars, affects, scraperVars,
      storeVars, scrapeVars, last_update, historyVars, op, committed,
      pcatCallVars>>

\* set_age_range(min_months, max_months) is entered and validates its
\* arguments; a rejected call returns False at once
SetAgeRangeValidate(min_months, max_months) ==
    /\ writer_pc = "idle"
    /\ arg_min_months' = min_months
    /\ arg_max_months' = max_months
    /\ IF RangeRejected(min_months, max_months)
       THEN /\ success' = FALSE
            /\ UNCHANGED <<writer_pc, committed_pairs, overlapped>>
       ELSE /\ writer_pc' = "store_min"
            /\ committed_pairs' = committed_pairs \cup {<<min_months, max_months>>}
            /\ overlapped' = (overlapped \/ reader_pc = "loaded_min")
            /\ UNCHANGED success
    /\ UNCHANGED <<managerVars, reader_pc, reader_call, reader_min, observed>>
    /\ UNCHANGED otherCallVars

\* Variant: the minimum is not stored
SetAgeRangeStoreMin_Skipped ==
    /\ writer_pc = "store_min"
    /\ writer_pc' = "store_max"
    /\ UNCHANGED <<managerVars, success, ageArgVars, overlapped>>
    /\ UNCHANGED <<reader_pc, reader_call, reader_min, observed, committed_pairs>>
    /\ UNCHANGED otherCallVars

\* self.min_age_months = min_months
SetAgeRangeStoreMin ==
    /\ writer_pc = "store_min"
    /\ min_age_months' = arg_min_months
    /\ writer_pc' = "store_max"
    /\ UNCHANGED <<max_age_months, success, ageArgVars, overlapped>>
    /\ UNCHANGED <<reader_pc, reader_call, reader_min, observed, committed_pairs>>
    /\ UNCHANGED otherCallVars

\* self.max_age_months = max_months; return True
SetAgeRangeStoreMax ==
    /\ writer_pc = "store_max"
    /\ max_age_months' = arg_max_months
    /\ success' = TRUE
    /\ writer_pc' = "idle"
    /\ UNCHANGED <<min_age_months, ageArgVars, overlapped>>
    /\ UNCHANGED <<reader_pc, reader_call, reader_min, observed, committed_pairs>>
    /\ UNCHANGED otherCallVars

\* get_age_range() or is_age_in_range(a) is entered and loads
\* self.min_age_months
ReadLoadMin(call, a) ==
    /\ reader_pc = "idle"
    /\ reader_pc' = "loaded_min"
    /\ reader_call' = call
    /\ query_age' = a
    /\ reader_min' = min_age_months
    /\ observed' = << >>
    /\ overlapped' = (writer_pc # "idle")
    /\ UNCHANGED <<managerVars, success, ageArgVars, writer_pc, committed_pairs>>
    /\ UNCHANGED <<workflowVars, riskCallVars, in_range, age_range, affects>>
    /\ UNCHANGED <<scraperVars, storeVars, scrapeVars, last_update, historyVars>>
    /\ UNCHANGED pcatCallVars
    /\ UNCHANGED <<op, committed>>

\* The read loads self.max_age_months and returns; the chained comparison
\* of is_age_in_range does not load it when the minimum is above the age
ReadLoadMax ==
    /\ reader_pc = "loaded_min"
    /\ reader_pc' = "idle"
    /\ IF reader_call = "get_age_range"
       THEN /\ age_range' = <<reader_min, max_age_months>>
            /\ observed' = <<reader_min, max_age_months>>
            /\ UNCHANGED in_range
       ELSE IF reader_min <= query_age
       THEN /\ in_range' = (query_age <= max_age_months)
            /\ observed' = <<reader_min, max_age_months>>
            /\ UNCHANGED age_range
       ELSE /\ in_range' = FALSE
            /\ observed' = << >>
            /\ UNCHANGED age_range
    /\ UNCHANGED <<managerVars, success, ageArgVars, writer_pc, committed_pairs>>
    /\ UNCHANGED <<reader_call, reader_min, query_age, overlapped>>
    /\ UNCHANGED <<workflowVars, riskCallVars, affects>>
    /\ UNCHANGED <<scraperVars, storeVars, scrapeVars, last_update, historyVars>>
    /\ UNCHANGED pcatCallVars
    /\ UNCHANGED <<op, committed>>

NextConcurrent ==
    \/ \E a \in ConcurrentAgeArgs : SetAgeRangeValidate(a[1], a[2])
    \/ SetAgeRangeStoreMin
    \/ SetAgeRangeStoreMax
    \/ ReadLoadMin("get_age_range", 0)
    \/ \E a \in ConcurrentQueryAges : ReadLoadMin("is_age_in_range", a)
    \/ ReadLoadMax

SpecConcurrent == Init /\ [][NextConcurrent]_vars

(***************************************************************************)
(* Repeated classifier calls, with other calls and clock ticks in between  *)
(***************************************************************************)
ClassifierCalls ==
    {"MeningitisWorkflow.classify", "DiarrhoeaWorkflow.classify",
     "_calculate_risk_level"}

\* The input of the call that has just finished
CallInput ==
    CASE op = "MeningitisWorkflow.classify" -> meningitis
      [] op = "DiarrhoeaWorkflow.classify" -> diarrhoea
      [] op = "_calculate_risk_level" -> <<disease, cases, cases_exp10, deaths>>

\* What the call that has just finished did
CallOutcome ==
    CASE op = "MeningitisWorkflow.classify" -> result
      [] op = "DiarrhoeaWorkflow.classify" -> result
      [] op = "_calculate_risk_level" ->
            IF raised = "" THEN risk_level ELSE RaisesOverflowError

DetMeningitisInputs ==
    {EmptyDict} \cup {[k \in {key} |-> TRUE] : key \in MeningitisKeys}
DetAgeMonthsInputs == {0, 12}
DetDiarrhoeaInputs ==
    {EmptyDict, [k \in ShockKeys |-> TRUE], [k \in {"sunken_eyes"} |-> TRUE]}
DetDiseaseInputs ==
    {meningitis_name,
     <<"M","e","n","i","n","g","i","t","i","s">>,
     <<"c","h","o","l","e","r","a">>}
DetCountInputs == {<<0, 0>>, <<7, 0>>, <<1, HugeExp10>>}
DetDeathsInputs == {0, 3}
DetAgeArgs == {<<6, 24>>, <<30, 10>>}

\* datetime.now() advances
Tick ==
    /\ op = "idle"
    /\ now < MaxNow
    /\ now' = now + 1
    /\ between' = between \cup {"clock"}
    /\ UNCHANGED <<op, callVars, scraperVars, managerVars, committed, auxVars>>
    /\ UNCHANGED remembered

\* A classifier call returns and is remembered for comparison
ReturnRemembered ==
    /\ op \in ClassifierCalls
    /\ Return
    /\ remembered' = [kind |-> op, input |-> CallInput, outcome |-> CallOutcome]
    /\ between' = {}
    /\ UNCHANGED now

\* A call returns; what it was is noted (a rejected set_age_range is not)
ReturnNoted ==
    /\ Return
    /\ between' = IF op = "set_age_range" /\ ~success THEN between
                  ELSE between \cup {op}
    /\ UNCHANGED <<now, remembered>>

NextDeterminism ==
    \/ /\ op = "idle"
       /\ \E kw \in DetMeningitisInputs : ClassifyMeningitis(kw)
       /\ UNCHANGED historyVars
    \/ /\ op = "idle"
       /\ \E a \in DetAgeMonthsInputs, s \in DetDiarrhoeaInputs :
              ClassifyDiarrhoea(a, s)
       /\ UNCHANGED historyVars
    \/ /\ op = "idle"
       /\ \E n \in DetDiseaseInputs, c \in DetCountInputs, d \in DetDeathsInputs :
              CalculateRisk(n, c[1], c[2], d)
       /\ UNCHANGED historyVars
    \/ /\ \E a \in DetAgeArgs : SetAgeRange(a[1], a[2])
       /\ UNCHANGED historyVars
    \/ Tick
    \/ ReturnRemembered
    \/ ReturnNoted

SpecDeterminism == Init /\ [][NextDeterminism]_vars

(***************************************************************************)
(* AlertSystem, the outbreak and alert tables and the alerts page of       *)
(* pcat.py.  An outbreak is a dict; a message is given by the values its   *)
(* f-string formats.                                                       *)
(***************************************************************************)
dengue_name == <<"d","e","n","g","u","e">>

alert_thresholds ==
    (meningitis_name :> [cases |-> 10, deaths |-> 1])
        @@ (cholera_name :> [cases |-> 20, deaths |-> 2])
        @@ (dengue_name :> [cases |-> 15, deaths |-> 1])

AlertOf(outbreak, cases_reported, deaths_reported) ==
    [alert_type |-> "Disease Outbreak",
     disease |-> outbreak.disease_name,
     location |-> outbreak.location,
     severity |-> outbreak.severity_level,
     message |-> <<"ALERT", outbreak.disease_name, outbreak.location,
                   cases_reported, deaths_reported>>]

\* Variant: both thresholds have to be met
RECURSIVE CheckAlerts_BothThresholds(_)
CheckAlerts_BothThresholds(outbreaks) ==
    IF outbreaks = << >> THEN << >>
    ELSE LET outbreak == Head(outbreaks)
             name == Lower(outbreak.disease_name)
             cases_reported == Get(outbreak, "cases", 0)
             deaths_reported == Get(outbreak, "deaths", 0)
             rest == CheckAlerts_BothThresholds(Tail(outbreaks))
         IN  IF /\ name \in DOMAIN alert_thresholds
                /\ cases_reported >= alert_thresholds[name].cases
                /\ deaths_reported >= alert_thresholds[name].deaths
             THEN <<AlertOf(outbreak, cases_reported, deaths_reported)>> \o rest
             ELSE rest

\* AlertSystem.check_alerts(outbreaks)
RECURSIVE AlertSystem_check_alerts(_)
AlertSystem_check_alerts(outbreaks) ==
    IF outbreaks = << >> THEN << >>
    ELSE LET outbreak == Head(outbreaks)
             name == Lower(outbreak.disease_name)
             cases_reported == Get(outbreak, "cases", 0)
             deaths_reported == Get(outbreak, "deaths", 0)
             rest == AlertSystem_check_alerts(Tail(outbreaks))
         IN  IF /\ name \in DOMAIN alert_thresholds
                /\ \/ cases_reported >= alert_thresholds[name].cases
                   \/ deaths_reported >= alert_thresholds[name].deaths
             THEN <<AlertOf(outbreak, cases_reported, deaths_reported)>> \o rest
             ELSE rest

\* Outbreaks given to check_alerts: a listed disease in another casing, a
\* listed one, an unlisted one; counts below and at the thresholds; dicts
\* without cases and deaths, and without deaths
AlertDiseaseInputs ==
    {<<"M","e","n","i","n","g","i","t","i","s">>, cholera_name,
     <<"m","a","l","a","r","i","a">>}
AlertCountInputs == {<<9, 0>>, <<10, 0>>, <<0, 1>>, <<19, 1>>, <<20, 0>>, <<0, 2>>}
OutbreakInputs ==
    {[disease_name |-> n, location |-> "Northern Kenya", severity_level |-> "High",
      cases |-> c[1], deaths |-> c[2]] :
        n \in AlertDiseaseInputs, c \in AlertCountInputs}
    \cup {[disease_name |-> n, location |-> "Coastal Region",
           severity_level |-> "Medium"] : n \in AlertDiseaseInputs}
    \cup {[disease_name |-> n, location |-> "Mombasa", severity_level |-> "Low",
           cases |-> 20] : n \in AlertDiseaseInputs}
OutbreakListInputs == SeqsUpTo(OutbreakInputs, MaxOutbreaks)

\* DiseaseOutbreakMonitor.get_mock_outbreaks(); date_reported in days from today
DiseaseOutbreakMonitor_get_mock_outbreaks ==
    <<[disease_name |-> <<"M","e","n","i","n","g","i","t","i","s">>,
       location |-> "Northern Kenya", source |-> "MOH Kenya",
       date_reported |-> 0, severity_level |-> "High", cases |-> 45, deaths |-> 3],
      [disease_name |-> <<"C","h","o","l","e","r","a">>,
       location |-> "Coastal Region", source |-> "WHO",
       date_reported |-> -2, severity_level |-> "Medium", cases |-> 127, deaths |-> 2],
      [disease_name |-> <<"D","e","n","g","u","e">>,
       location |-> "Mombasa", source |-> "CDC",
       date_reported |-> -1, severity_level |-> "Medium", cases |-> 23, deaths |-> 0]>>

\* What scrape_who_outbreaks gives for one news item: the counts are 0
ScrapedOutbreaks ==
    <<[disease_name |-> <<"C","h","o","l","e","r","a">>,
       location |-> "Unknown", source |-> "WHO",
       date_reported |-> 0, severity_level |-> "Low", cases |-> 0, deaths |-> 0]>>

\* disease_outbreaks has no uniqueness constraint besides its id
OutbreakUniqueColumnSets == {{"id"}}

\* INSERT OR IGNORE: the row is dropped when it conflicts with a stored row
InsertOrIgnore(table, row) ==
    IF \E i \in 1..Len(table) : \E cols \in OutbreakUniqueColumnSets :
           \A c \in cols : table[i][c] = row[c]
    THEN table
    ELSE Append(table, row)

\* save_outbreaks_to_db(outbreaks): the table after the loop and the commit
RECURSIVE save_outbreaks_to_db(_, _)
save_outbreaks_to_db(table, outbreaks) ==
    IF outbreaks = << >> THEN table
    ELSE LET o == Head(outbreaks)
             row == [id |-> Len(table) + 1, disease_name |-> o.disease_name,
                     location |-> o.location, cases |-> o.cases,
                     deaths |-> o.deaths, source |-> o.source,
                     date_reported |-> o.date_reported,
                     severity_level |-> o.severity_level]
         IN  save_outbreaks_to_db(InsertOrIgnore(table, row), Tail(outbreaks))

\* get_outbreak_data(): the rows ORDER BY date_reported DESC; rows of one
\* date come in any order
get_outbreak_data(table) ==
    LET n == Len(table)
        orders == {f \in [1..n -> 1..n] :
                     /\ \A i, j \in 1..n : f[i] = f[j] => i = j
                     /\ \A i \in 1..n : i < n =>
                           table[f[i]].date_reported >= table[f[i + 1]].date_reported}
    IN  {[i \in 1..n |-> table[f[i]]] : f \in orders}

\* save_alerts_to_db(alerts): every alert is inserted as a new active row
RECURSIVE save_alerts_to_db(_, _)
save_alerts_to_db(table, alert_list) ==
    IF alert_list = << >> THEN table
    ELSE LET a == Head(alert_list)
             row == [id |-> Len(table) + 1, alert_type |-> a.alert_type,
                     disease |-> a.disease, location |-> a.location,
                     severity |-> a.severity, message |-> a.message,
                     is_active |-> TRUE]
         IN  save_alerts_to_db(Append(table, row), Tail(alert_list))

alertFrame ==
    <<workflowVars, riskCallVars, success, ageArgVars, ageQueryVars, affects,
      scraperVars, managerVars, committed, risk_areas, next_id, scrapeVars,
      last_update, taskVars>>

\* AlertSystem().check_alerts(outbreaks)
CheckAlerts(outbreaks) ==
    /\ op = "idle"
    /\ op' = "check_alerts"
    /\ outbreaks_arg' = outbreaks
    /\ alerts_out' = AlertSystem_check_alerts(outbreaks)
    /\ UNCHANGED <<pcatStoreVars, assessCallVars, alertFrame>>

\* save_outbreaks_to_db(outbreaks), as 'Refresh Outbreak Data' calls it
SaveOutbreaksToDb(outbreaks) ==
    /\ op = "idle"
    /\ Len(disease_outbreaks_table) + Len(outbreaks) <= MaxOutbreakRows
    /\ op' = "save_outbreaks_to_db"
    /\ disease_outbreaks_table' = save_outbreaks_to_db(disease_outbreaks_table, outbreaks)
    /\ UNCHANGED <<alerts_table, assessStoreVars, pcatCallVars, alertFrame>>

\* emergency_alerts_page() with 'Check for New Alerts' pressed
CheckForNewAlerts ==
    /\ op = "idle"
    /\ \E outbreaks \in get_outbreak_data(disease_outbreaks_table) :
          LET found == IF outbreaks # << >>
                       THEN AlertSystem_check_alerts(outbreaks)
                       ELSE << >>
          IN  /\ Len(alerts_table) + Len(found) <= MaxAlertRows
              /\ outbreaks_arg' = outbreaks
              /\ alerts_out' = found
              /\ alerts_table' = IF found # << >>
                                 THEN save_alerts_to_db(alerts_table, found)
                                 ELSE alerts_table
    /\ op' = "emergency_alerts_page"
    /\ UNCHANGED <<disease_outbreaks_table, assessStoreVars, assessCallVars>>
    /\ UNCHANGED alertFrame

NextAlerts ==
    \/ /\ op = "idle"
       /\ \E outbreaks \in OutbreakListInputs : CheckAlerts(outbreaks)
       /\ UNCHANGED historyVars
    \/ /\ \E outbreaks \in {DiseaseOutbreakMonitor_get_mock_outbreaks,
                             ScrapedOutbreaks} : SaveOutbreaksToDb(outbreaks)
       /\ UNCHANGED historyVars
    \/ /\ CheckForNewAlerts
       /\ UNCHANGED historyVars
    \/ /\ Return
       /\ UNCHANGED historyVars

SpecAlerts == Init /\ [][NextAlerts]_vars

(***************************************************************************)
(* Patient assessment page (pcat.py)                                       *)
(***************************************************************************)
\* Characters str.strip() and str.split() treat as blank
Whitespace == {" "}

RECURSIVE LStrip(_)
LStrip(str) ==
    IF str # << >> /\ Head(str) \in Whitespace THEN LStrip(Tail(str)) ELSE str

Reverse(str) == [i \in 1..Len(str) |-> str[Len(str) + 1 - i]]

\* str.strip()
Strip(str) == Reverse(LStrip(Reverse(LStrip(str))))

\* str.upper() on one character
UpperChar(ch) ==
    IF \E i \in 1..26 : LowerCase[i] = ch
    THEN UpperCase[CHOOSE i \in 1..26 : LowerCase[i] = ch]
    ELSE ch

\* get_initials(name): the upper-cased first character of every word
get_initials(name) ==
    LET str == Strip(name)
        first == [i \in 1..Len(str) |->
                     IF /\ str[i] \notin Whitespace
                        /\ (i = 1 \/ str[i - 1] \in Whitespace)
                     THEN UpperChar(str[i])
                     ELSE ""]
    IN  SelectSeq(first, LAMBDA ch : ch # "")

\* generate_patient_id(name): a digest of the lower-cased name and the time of
\* the call; different (name, time) pairs are taken to give different ids.
generate_patient_id(name, clock) == [who |-> Lower(Strip(name)), at |-> clock]

DecimalDigits == <<"0","1","2","3","4","5","6","7","8","9">>

\* SUPERSCRIPT TWO (U+00B2): str.isdigit() accepts it, int() does not
superscript_two == "U+00B2"

\* str.isdigit()
str_isdigit(str) ==
    /\ str # << >>
    /\ \A i \in 1..Len(str) :
          \/ \E d \in 1..10 : DecimalDigits[d] = str[i]
          \/ str[i] = superscript_two

RECURSIVE DecimalValue(_)
DecimalValue(str) ==
    IF str = << >>
    THEN 0
    ELSE 10 * DecimalValue(SubSeq(str, 1, Len(str) - 1))
            + (CHOOSE d \in 0..9 : DecimalDigits[d + 1] = str[Len(str)])

\* int(age_str) on a string that passed isdigit()
int_of(str) ==
    IF \A i \in 1..Len(str) : \E d \in 1..10 : DecimalDigits[d] = str[i]
    THEN [raises |-> FALSE, value |-> DecimalValue(str)]
    ELSE [raises |-> TRUE, value |-> 0]

\* The symptom lists of the page, by workflow
PageSymptoms(workflow) ==
    IF workflow = "Meningitis" THEN MeningitisKeys ELSE DiarrhoeaKeys

\* The checkbox loop: every listed symptom is stored with the box's value
StoreCheckboxes(stored, workflow, ticked) ==
    [k \in DOMAIN stored \cup PageSymptoms(workflow) |->
        IF k \in PageSymptoms(workflow) THEN k \in ticked ELSE stored[k]]

\* save_to_database: INSERT OR REPLACE on the UNIQUE patient_id
save_to_database(table, name, pid, age, residence, gender, condition, verdict, symptoms_dict, clock) ==
    SelectSeq(table, LAMBDA row : row.patient_id # pid)
        \o <<[patient_id            |-> pid,
              full_name             |-> name,
              initials              |-> get_initials(name),
              age_months            |-> age,
              residence             |-> residence,
              gender                |-> gender,
              condition_type        |-> condition,
              classification_result |-> verdict,
              symptoms              |-> symptoms_dict,
              timestamp             |-> clock]>>

CsvFileName == "clinical_assessment_results.csv"
CsvHeader ==
    <<"Timestamp", "Patient Initials", "Patient ID", "Age (months)",
      "Residence", "Gender", "Condition", "Result">>
CsvNameError == "Error writing to file: name 'name' is not defined"
CsvOpenError == "Error writing to file: cannot open"

\* Names export_to_csv can resolve: its parameters, its locals and the
\* module's globals it uses
ExportToCsvNames ==
    {"initials", "pid", "age", "residence", "gender", "condition", "result",
     "filename", "file_exists", "file", "writer",
     "os", "csv", "datetime", "get_initials"}

\* export_to_csv(initials, pid, age, residence, gender, condition, result)
export_to_csv(file, can_open, initials, pid, age, residence, gender, condition, verdict, clock) ==
    IF ~can_open
    THEN [file |-> file, returned |-> CsvOpenError]
    ELSE LET opened == [exists |-> TRUE,
                        rows   |-> IF file.exists
                                   THEN file.rows
                                   ELSE <<CsvHeader>>]
         IN  IF "name" \in ExportToCsvNames
             THEN [file |-> [opened EXCEPT !.rows =
                               Append(@, <<clock, get_initials(initials), pid,
                                           age, residence, gender, condition,
                                           verdict>>)],
                   returned |-> CsvFileName]
             ELSE [file |-> opened, returned |-> CsvNameError]

\* generate_pdf_report: the report of this patient id is built, or building
\* fails and None is returned
generate_pdf_report(files, built, pid) ==
    IF built THEN files \cup {pid} ELSE files

\* Variant: the gender is not one of the required fields.
RequiredFieldMissing_GenderOptional(name, age_str, residence, gender) ==
    name = << >> \/ age_str = << >> \/ residence = << >>

\* 'if not name or not age_str or not residence or not gender'
RequiredFieldMissing(name, age_str, residence, gender) ==
    name = << >> \/ age_str = << >> \/ residence = << >> \/ gender = ""

\* What a pass leaves when classify_and_save is not reached or returns early
NothingDone(session) ==
    [steps        |-> << >>,
     result       |-> "",
     raised       |-> "",
     meningitis   |-> NoWorkflow,
     diarrhoea    |-> NoAssessment,
     success      |-> FALSE,
     patients     |-> session.patients,
     csv          |-> session.csv,
     pdfs         |-> session.pdfs,
     csv_returned |-> ""]

\* classify_and_save() on the session state; env tells whether the database
\* write, the opening of the CSV file and the PDF build succeed
classify_and_save(session, env) ==
    LET name      == Strip(session.patient_name)
        initials  == get_initials(name)
        age_str   == Strip(session.patient_age)
        residence == Strip(session.patient_residence)
        gender    == session.patient_gender
        workflow  == session.workflow_choice
        stored    == session.symptom_vars
        nothing   == NothingDone(session)
    IN
    IF RequiredFieldMissing(name, age_str, residence, gender)
    THEN [nothing EXCEPT !.steps = <<"error: required fields">>]
    ELSE IF ~str_isdigit(age_str)
    THEN [nothing EXCEPT !.steps = <<"error: age">>]
    ELSE IF int_of(age_str).raises
    THEN [nothing EXCEPT !.raised = "ValueError"]
    ELSE
    LET age        == int_of(age_str).value
        patient_id == generate_patient_id(initials, session.now)
        men == MeningitisWorkflow_init(
                   [k \in MeningitisKeys |->
                       Get(stored, k, k \in {"lp_clear", "test_done"})])
        dia == DiarrhoeaWorkflow_init(
                   age, [k \in DiarrhoeaKeys |-> Get(stored, k, FALSE)])
        verdict == IF workflow = "Meningitis"
                   THEN MeningitisWorkflow_classify(men)
                   ELSE DiarrhoeaWorkflow_classify(dia)
        symptoms_dict == IF workflow = "Meningitis"
                         THEN [k \in MeningitisKeys |-> men[k]]
                         ELSE dia.symptoms
        classified ==
            [nothing EXCEPT
                !.steps = <<"classification shown">>,
                !.result = verdict,
                !.meningitis = IF workflow = "Meningitis" THEN men ELSE @,
                !.diarrhoea = IF workflow = "Meningitis" THEN @ ELSE dia]
        exported == export_to_csv(session.csv, env.csv_opens, name, patient_id,
                                  age, residence, gender, workflow, verdict,
                                  session.now)
    IN
    IF env.db_ok
    THEN [classified EXCEPT
            !.steps = @ \o <<"save_to_database", "export_to_csv",
                             "generate_pdf_report">>,
            !.success = TRUE,
            !.patients = save_to_database(session.patients, initials,
                             patient_id, age, residence, gender, workflow,
                             verdict, symptoms_dict, session.now),
            !.csv = exported.file,
            !.csv_returned = exported.returned,
            !.pdfs = generate_pdf_report(session.pdfs, env.pdf_built,
                                         patient_id)]
    ELSE [classified EXCEPT
            !.steps = @ \o <<"save_to_database", "error: save failed">>]

\* Widget contents tried: one complete form, and the forms that differ from it
\* in one field
CompleteForm ==
    [patient_name      |-> <<" ","j","a","n","e"," ","d","o","e">>,
     patient_age       |-> <<"1","2"," ">>,
     patient_residence |-> <<"K","i","s","u","m","u">>,
     patient_gender    |-> "F"]
FormInputs ==
    {CompleteForm}
        \cup {[CompleteForm EXCEPT !.patient_name = v] : v \in {<< >>, <<" ">>}}
        \cup {[CompleteForm EXCEPT !.patient_age = v] :
                 v \in {<< >>, <<"1","a">>, <<"-","1">>, <<superscript_two>>}}
        \cup {[CompleteForm EXCEPT !.patient_residence = v] : v \in {<<" ">>}}
        \cup {[CompleteForm EXCEPT !.patient_gender = v] : v \in {""}}
WorkflowChoices == {"Meningitis", "Diarrhoea"}
TickedInputs(workflow) ==
    IF workflow = "Meningitis"
    THEN {{}, {"lp_clear", "test_done"}}
    ELSE {{}, ShockKeys}
ButtonInputs == {"", "classify", "clear"}
\* The environment of a handler: nothing fails, or one of the three writes does
NoFailure == [db_ok |-> TRUE, csv_opens |-> TRUE, pdf_built |-> TRUE]
EnvInputs(button) ==
    IF button = "classify"
    THEN {NoFailure, [NoFailure EXCEPT !.db_ok = FALSE],
          [NoFailure EXCEPT !.csv_opens = FALSE],
          [NoFailure EXCEPT !.pdf_built = FALSE]}
    ELSE {NoFailure}

\* One pass of patient_assessment_page(): the widgets are read, the checkbox
\* values are stored, and the pressed button's handler runs
PatientAssessmentPage(widgets, workflow, ticked, button, env) ==
    /\ op = "idle"
    /\ op' = "patient_assessment_page"
    /\ LET stored  == StoreCheckboxes(symptom_vars, workflow, ticked)
           session == [patient_name      |-> widgets.patient_name,
                       patient_age       |-> widgets.patient_age,
                       patient_residence |-> widgets.patient_residence,
                       patient_gender    |-> widgets.patient_gender,
                       workflow_choice   |-> workflow,
                       symptom_vars      |-> stored,
                       now               |-> now,
                       patients          |-> patients_table,
                       csv               |-> csv_file,
                       pdfs              |-> pdf_files]
           cleared == button = "clear"
       IN  \E out \in {IF button = "classify"
                       THEN classify_and_save(session, env)
                       ELSE NothingDone(session)} :
           /\ form' = [rendered          |-> TRUE,
                       patient_name      |-> IF cleared THEN << >>
                                             ELSE widgets.patient_name,
                       patient_age       |-> IF cleared THEN << >>
                                             ELSE widgets.patient_age,
                       patient_residence |-> IF cleared THEN << >>
                                             ELSE widgets.patient_residence,
                       patient_gender    |-> IF cleared THEN ""
                                             ELSE widgets.patient_gender,
                       workflow_choice   |-> workflow,
                       ticked            |-> ticked,
                       button            |-> button]
           /\ symptom_vars' = IF cleared THEN EmptyDict ELSE stored
           /\ steps' = out.steps
           /\ result' = out.result
           /\ raised' = out.raised
           /\ meningitis' = out.meningitis
           /\ diarrhoea' = out.diarrhoea
           /\ success' = out.success
           /\ patients_table' = out.patients
           /\ csv_file' = out.csv
           /\ pdf_files' = out.pdfs
           /\ csv_returned' = out.csv_returned
    /\ UNCHANGED <<disease, cases, cases_exp10, deaths, risk_level,
                   ageArgVars, ageQueryVars, affects>>
    /\ UNCHANGED <<scraperVars, managerVars, committed, risk_areas, next_id,
                   disease_outbreaks_table, alerts_table, alertCallVars,
                   scrapeVars, last_update, taskVars>>

NextAssessment ==
    \/ /\ op = "idle"
       /\ \E widgets \in FormInputs, workflow \in WorkflowChoices,
             button \in ButtonInputs :
             \E ticked \in TickedInputs(workflow), env \in EnvInputs(button) :
                PatientAssessmentPage(widgets, workflow, ticked, button, env)
       /\ UNCHANGED historyVars
    \/ /\ Tick
    \/ /\ Return
       /\ UNCHANGED historyVars

SpecAssessment == Init /\ [][NextAssessment]_vars

(***************************************************************************)
(* Properties of MeningitisWorkflow.classify                               *)
(***************************************************************************)
MeningitisReturned == op = "MeningitisWorkflow.classify"

DefiniteTrigger ==
    \/ meningitis.coma
    \/ meningitis.stiff_neck
    \/ meningitis.bulging_fontanelle
    \/ ~meningitis.lp_clear

\* C1: whenever coma, stiff_neck or bulging_fontanelle is true or lp_clear is
\* false, classify returns the Definite verdict, whatever csf_wbc_raised,
\* gram_positive and test_done are; lp_clear = False alone is Definite.
C1_DefiniteOnAnyTrigger ==
    (MeningitisReturned /\ DefiniteTrigger) => result = DefiniteMeningitis

C1_LpNotClearAlone ==
    /\ MeningitisReturned
    /\ meningitis = [coma |-> FALSE, stiff_neck |-> FALSE,
                     bulging_fontanelle |-> FALSE, lp_clear |-> FALSE,
                     csf_wbc_raised |-> FALSE, gram_positive |-> FALSE,
                     test_done |-> FALSE]
    /\ result = DefiniteMeningitis

\* C2: classify returns the Probable verdict exactly when no Definite trigger
\* is present and csf_wbc_raised or gram_positive is true, independently of
\* test_done.
C2_ProbableExactly ==
    MeningitisReturned =>
        (result = ProbableMeningitis
            <=> (~DefiniteTrigger
                 /\ (meningitis.csf_wbc_raised \/ meningitis.gram_positive)))

C2_ProbableWithTestDone ==
    /\ MeningitisReturned
    /\ ~DefiniteTrigger
    /\ meningitis.gram_positive
    /\ ~meningitis.csf_wbc_raised
    /\ meningitis.test_done
    /\ result = ProbableMeningitis

\* C3: with no positive signal (no Definite trigger, csf_wbc_raised and
\* gram_positive false) classify returns Possible if test_done is true and
\* the no-signal fallback text if test_done is false.
C3_PossibleOrFallback ==
    (/\ MeningitisReturned
     /\ ~DefiniteTrigger
     /\ ~meningitis.csf_wbc_raised
     /\ ~meningitis.gram_positive)
        => /\ meningitis.test_done => result = PossibleMeningitis
           /\ ~meningitis.test_done => result = NoMeningitisSigns

C3_FallbackReached ==
    /\ MeningitisReturned
    /\ ~DefiniteTrigger
    /\ ~meningitis.csf_wbc_raised
    /\ ~meningitis.gram_positive
    /\ ~meningitis.test_done
    /\ result = NoMeningitisSigns

(***************************************************************************)
(* Properties of DiarrhoeaWorkflow.classify                                *)
(***************************************************************************)
DiarrhoeaReturned == op = "DiarrhoeaWorkflow.classify"

Flag(k) == k \in DOMAIN diarrhoea.symptoms /\ diarrhoea.symptoms[k]

AllShockFlags ==
    /\ Flag("weak_or_absent_pulse")
    /\ Flag("cold_hands_temp_gradient")
    /\ Flag("capillary_refill_gt_3s")
    /\ Flag("slow_skin_pinch")

AnySevereFlag ==
    Flag("sunken_eyes") \/ Flag("unable_to_drink") \/ Flag("skin_pinch_gt_2s")

\* C4: when all four shock flags are true classify returns the Shock verdict,
\* for every age and every value of the other five flags, also when severe
\* or moderate signs are present.
C4_ShockWins ==
    (DiarrhoeaReturned /\ AllShockFlags) => result = ShockVerdict

C4_ShockWithSevereSigns ==
    /\ DiarrhoeaReturned
    /\ \A k \in DiarrhoeaKeys : Flag(k)
    /\ result = ShockVerdict

\* C5: when not all four shock flags are true and a severe sign is present,
\* classify returns Severe Dehydration, over 2.5hrs exactly when
\* age_months >= 12 and over 4hrs exactly when age_months < 12.
C5_SevereDurationByAge ==
    (DiarrhoeaReturned /\ ~AllShockFlags /\ AnySevereFlag) =>
        /\ result \in
             {"Severe Dehydration: Plan C Step 2 -> 70ml/kg IV Ringer's over 2.5hrs",
              "Severe Dehydration: Plan C Step 2 -> 70ml/kg IV Ringer's over 4hrs"}
        /\ (result = "Severe Dehydration: Plan C Step 2 -> 70ml/kg IV Ringer's over 2.5hrs")
              <=> diarrhoea.age >= 12
        /\ (result = "Severe Dehydration: Plan C Step 2 -> 70ml/kg IV Ringer's over 4hrs")
              <=> diarrhoea.age < 12

C5_TwelveMonthsShorter ==
    /\ DiarrhoeaReturned
    /\ ~AllShockFlags
    /\ Flag("sunken_eyes")
    /\ diarrhoea.age = 12
    /\ result = "Severe Dehydration: Plan C Step 2 -> 70ml/kg IV Ringer's over 2.5hrs"

\* C6: when neither the Shock nor the Severe tier matches, classify returns
\* Some Dehydration if at least 2 of sunken_eyes, restless_irritable,
\* skin_pinch_1_2s are true and No Dehydration otherwise; flags that are
\* false or missing from the mapping give No Dehydration.
C6_SomeOrNoDehydration ==
    (DiarrhoeaReturned /\ ~AllShockFlags /\ ~AnySevereFlag) =>
        LET n == (IF Flag("sunken_eyes") THEN 1 ELSE 0)
                 + (IF Flag("restless_irritable") THEN 1 ELSE 0)
                 + (IF Flag("skin_pinch_1_2s") THEN 1 ELSE 0)
        IN  /\ n >= 2 => result = SomeDehydration
            /\ n < 2 => result = NoDehydration
            /\ (\A k \in DiarrhoeaKeys : ~Flag(k)) => result = NoDehydration

C6_TwoModerateSignsOnly ==
    /\ DiarrhoeaReturned
    /\ DOMAIN diarrhoea.symptoms = {"restless_irritable", "skin_pinch_1_2s"}
    /\ Flag("restless_irritable")
    /\ Flag("skin_pinch_1_2s")
    /\ result = SomeDehydration

(***************************************************************************)
(* Properties of EnhancedMOHScraper._calculate_risk_level                  *)
(***************************************************************************)
RiskReturned == op = "_calculate_risk_level"

\* The scenarios of demo_risk_classification with their expected levels
DemoScenarios ==
    {[disease |-> meningitis_name, cases |-> 25,  deaths |-> 3, expected |-> "High"],
     [disease |-> meningitis_name, cases |-> 8,   deaths |-> 1, expected |-> "Medium"],
     [disease |-> meningitis_name, cases |-> 2,   deaths |-> 0, expected |-> "Low"],
     [disease |-> diarrhoea_name,  cases |-> 100, deaths |-> 6, expected |-> "High"],
     [disease |-> diarrhoea_name,  cases |-> 35,  deaths |-> 2, expected |-> "Medium"],
     [disease |-> diarrhoea_name,  cases |-> 8,   deaths |-> 0, expected |-> "Low"]}

\* What the finished _calculate_risk_level call did: the level or the raise
RiskOutcome ==
    IF raised = "" THEN risk_level ELSE RaisesOverflowError

\* cases * 10^cases_exp10 >= t, for a threshold t below 10^HugeExp10
CountAtLeast(t) ==
    IF cases_exp10 = 0 THEN cases >= t ELSE cases >= 1

\* C7: for a disease of the threshold table the level is High iff
\* cases >= high.cases_per_100k or deaths >= high.deaths, otherwise Medium
\* iff cases >= medium.cases_per_100k or deaths >= medium.deaths, otherwise
\* Low, the rate compared being the raw case count; the demo scenarios get
\* their expected levels.
C7_TiersOnRawCounts ==
    (RiskReturned /\ disease \in DOMAIN risk_thresholds) =>
        LET t == risk_thresholds[disease]
            isHigh   == CountAtLeast(t.high.cases_per_100k)
                            \/ deaths >= t.high.deaths
            isMedium == CountAtLeast(t.medium.cases_per_100k)
                            \/ deaths >= t.medium.deaths
        IN  /\ risk_level = "High" <=> isHigh
            /\ risk_level = "Medium" <=> (~isHigh /\ isMedium)
            /\ risk_level = "Low" <=> (~isHigh /\ ~isMedium)
            /\ \A sc \in DemoScenarios :
                 (/\ disease = sc.disease
                  /\ cases = sc.cases
                  /\ cases_exp10 = 0
                  /\ deaths = sc.deaths)
                     => risk_level = sc.expected

C7_MediumAtCaseThreshold ==
    /\ RiskReturned
    /\ disease = meningitis_name
    /\ cases = 5
    /\ deaths = 0
    /\ risk_level = "Medium"

\* C8: the disease name is looked up case-insensitively: every casing of a
\* name gets the level of the lower-cased name, for every cases and deaths.
C8_CaseInsensitiveLookup ==
    RiskReturned =>
        RiskOutcome = CalculateRiskLevel(risk_thresholds, Lower(disease),
                                         cases, cases_exp10, deaths)

\* C9: for a disease name that is not a key of the threshold table the level
\* is Medium for every case count and every death count, 0 and very large
\* counts included.
C9_UnknownDiseaseMedium ==
    (RiskReturned /\ disease \notin DOMAIN risk_thresholds) => risk_level = "Medium"

C9_UnknownDiseaseLargeCounts ==
    /\ RiskReturned
    /\ disease = <<"u","n","k","n","o","w","n","_","d","i","s","e","a","s","e">>
    /\ cases = 1
    /\ cases_exp10 = HugeExp10
    /\ deaths = LargeCount
    /\ risk_level = "Medium"

(***************************************************************************)
(* Properties of AgeConstraintManager                                      *)
(***************************************************************************)
\* C10: 0 <= min_age_months <= max_age_months <= 120 holds in every reachable
\* state of an AgeConstraintManager: after construction with default or
\* caller-supplied bounds and after any sequence of set_age_range calls.
C10_AgeRangeInvariant ==
    /\ 0 <= min_age_months
    /\ min_age_months <= max_age_months
    /\ max_age_months <= 120

ArgsValid ==
    /\ 0 <= arg_min_months
    /\ arg_min_months <= arg_max_months
    /\ arg_max_months <= 120

\* C11: a set_age_range call whose arguments violate 0 <= min <= max <= 120
\* returns False and leaves min_age_months and max_age_months exactly as they
\* were before the call (no partial write).
C11_RejectedCallLeavesRange ==
    [][(op' = "set_age_range" /\ ~ArgsValid')
          => /\ success' = FALSE
             /\ min_age_months' = min_age_months
             /\ max_age_months' = max_age_months]_vars

C11_ThirtyTenRejected ==
    /\ op = "set_age_range"
    /\ arg_min_months = 30
    /\ arg_max_months = 10
    /\ success = FALSE
    /\ min_age_months = 6
    /\ max_age_months = 24

\* C12: set_age_range returns True exactly when 0 <= min <= max <= 120, and
\* get_age_range returns the arguments of the most recent call that returned
\* True, or the construction-time range if none did.
C12_TrueIffValidAndLatestWins ==
    /\ op = "set_age_range" => (success <=> ArgsValid)
    /\ op = "get_age_range" => age_range = committed

C12_UpdatedRangeRead ==
    /\ op = "get_age_range"
    /\ age_range = <<6, 24>>
    /\ committed = <<6, 24>>

\* C13: is_age_in_range(age) is true exactly when min <= age <= max for the
\* currently committed range, both bounds included.
C13_InclusiveBounds ==
    op = "is_age_in_range" =>
        /\ in_range <=> (committed[1] <= query_age /\ query_age <= committed[2])
        /\ (query_age = committed[1] /\ committed[1] <= committed[2]) => in_range
        /\ (query_age = committed[2] /\ committed[1] <= committed[2]) => in_range
        /\ query_age = committed[1] - 1 => ~in_range
        /\ query_age = committed[2] + 1 => ~in_range

C13_MaxIsInRange ==
    /\ op = "is_age_in_range"
    /\ committed = <<6, 24>>
    /\ query_age = 24
    /\ in_range

(***************************************************************************)
(* Properties of EnhancedMOHScraper._affects_target_age_group              *)
(***************************************************************************)
\* The names tried that read 'meningitis' or 'diarrhoea' when lower-cased
AgeRelevantCasings ==
    {<<"m","e","n","i","n","g","i","t","i","s">>,
     <<"M","e","n","i","n","g","i","t","i","s">>,
     <<"M","E","N","I","N","G","I","T","I","S">>,
     <<"d","i","a","r","r","h","o","e","a">>,
     <<"D","i","a","r","r","h","o","e","a">>,
     <<"d","I","A","R","R","H","O","E","A">>}

\* C14: _affects_target_age_group is true exactly for the names that equal
\* 'meningitis' or 'diarrhoea' after lower-casing, whatever range the
\* AgeConstraintManager holds and whatever the scraper's own
\* min_age_months / max_age_months are.
C14_NameMembershipOnly ==
    op = "_affects_target_age_group" => (affects <=> disease \in AgeRelevantCasings)

C14_RelevantOutsideConfiguredRange ==
    /\ op = "_affects_target_age_group"
    /\ disease = <<"M","E","N","I","N","G","I","T","I","S">>
    /\ affects
    /\ min_age_months = 120
    /\ max_age_months = 120

(***************************************************************************)
(* Properties of RiskAreaDatabase                                          *)
(***************************************************************************)
SameKey(r, q) ==
    /\ r.location = q.location
    /\ r.disease = q.disease
    /\ r.source_url = q.source_url

\* C15: persistence upserts by (location, disease, source): however often
\* records with the same key are saved, the risk_areas table holds exactly
\* one row for that key (saving the same data again does not grow the table).
C15_OneRowPerKey ==
    \A i, j \in DOMAIN risk_areas :
        SameKey(risk_areas[i], risk_areas[j]) => i = j
MeningitisVerdicts ==
    {DefiniteMeningitis, ProbableMeningitis, PossibleMeningitis, NoMeningitisSigns}

DiarrhoeaVerdicts ==
    {ShockVerdict, SevereDehydrationPrefix \o "2.5hrs",
     SevereDehydrationPrefix \o "4hrs", SomeDehydration, NoDehydration}

RiskLevels == {"High", "Medium", "Low"}

\* C16: each classifier is total: for every flag combination, every age,
\* every case and death count and every disease name the call returns one
\* verdict of its fixed verdict set and never raises.
C16_ClassifiersTotal ==
    /\ MeningitisReturned => result \in MeningitisVerdicts
    /\ DiarrhoeaReturned => result \in DiarrhoeaVerdicts
    /\ RiskReturned => (raised = "" /\ risk_level \in RiskLevels)

\* The finished classifier call has the input of the remembered call
SameInputAgain ==
    /\ op \in ClassifierCalls
    /\ remembered.kind = op
    /\ remembered.input = CallInput

RenderPasses ==
    {"create_streamlit_app", "enhanced_disease_monitoring_page",
     "enhanced_emergency_alerts_page"}

\* C19: the age range lives in a long-lived holder: once 'Update Age Range'
\* has led to a successful set_age_range, every later render pass shows
\* that range until the next successful update; it does not revert to the
\* default (1, 60) between passes.
C19_UpdatedRangeKept ==
    (op \in RenderPasses /\ last_update # << >>) => age_range = last_update

\* C20: every pair observed through get_age_range, and every range used by
\* is_age_in_range, is the construction-time range or a pair committed by
\* a successful set_age_range call, also when the read is interleaved with
\* a set_age_range in progress.
C20_NoTornRead ==
    observed # << >> => observed \in committed_pairs

\* C20, amended: the same, for reads during which no set_age_range call was
\* in progress.
C20_NoTornReadWithoutOverlap ==
    (observed # << >> /\ ~overlapped) => observed \in committed_pairs

C20_UpdatedPairReadAlone ==
    /\ observed = <<6, 24>>
    /\ ~overlapped
    /\ reader_call = "is_age_in_range"
    /\ in_range
    /\ <<10, 30>> \in committed_pairs

FilterReturned == op = "_filter_by_age_constraints"

\* Positions of the input records whose disease is age-relevant
RelevantPositions ==
    {i \in 1..Len(areas_arg) :
        Lower(areas_arg[i].disease) \in {meningitis_name, diarrhoea_name}}

\* The k-th smallest relevant position
RelevantPosition(k) ==
    CHOOSE i \in RelevantPositions :
        Cardinality({j \in RelevantPositions : j < i}) = k - 1

\* C21: _filter_by_age_constraints returns exactly the input records whose
\* disease is age-relevant, each once, unmodified and in input order; an
\* empty input gives an empty list.
C21_OrderPreservingSubsequence ==
    FilterReturned =>
        /\ Len(areas_out) = Cardinality(RelevantPositions)
        /\ \A k \in 1..Len(areas_out) : areas_out[k] = areas_arg[RelevantPosition(k)]
        /\ (areas_arg = << >> => areas_out = << >>)

C21_IrrelevantRecordDropped ==
    /\ FilterReturned
    /\ Len(areas_arg) = 2
    /\ areas_arg[1].disease = cholera_name
    /\ areas_arg[2].disease = meningitis_name
    /\ areas_out = <<areas_arg[2]>>

GetAllReturned == op = "get_all_risk_areas"

\* The returned records of one source, in their order
FromSource(source) ==
    SelectSeq(areas_out, LAMBDA area : area.source_url = source)

Elements(q) == {q[i] : i \in DOMAIN q}

\* The section names a disease of interest and its risk level is computed
SectionGivesRecord(section) ==
    /\ \E i \in 1..Len(diseases_of_interest) :
          diseases_of_interest[i] \in section.mentions
    /\ ~(section.cases > 0 /\ section.cases_exp10 >= HugeExp10)

\* Scraping the page produced no record
ScrapedNothing(page, limit) ==
    \/ ~page.ok
    \/ \A i \in 1..Len(page.sections) :
          i <= limit => ~SectionGivesRecord(page.sections[i])

C23_LevelMatchesClassifier ==
    GetAllReturned =>
        \A i \in 1..Len(areas_out) :
            areas_out[i].risk_level =
                CalculateRiskLevel(risk_thresholds, areas_out[i].disease,
                                   areas_out[i].cases, 0, areas_out[i].deaths)

AlertsReturned == op = "check_alerts"

\* The outbreak meets the alert criteria of its disease
Qualifies(outbreak) ==
    LET name == Lower(outbreak.disease_name)
        reported(k) == IF k \in DOMAIN outbreak THEN outbreak[k] ELSE 0
    IN  /\ name \in {meningitis_name, cholera_name, dengue_name}
        /\ \/ reported("cases") >= alert_thresholds[name].cases
           \/ reported("deaths") >= alert_thresholds[name].deaths

QualifyingPositions == {i \in 1..Len(outbreaks_arg) : Qualifies(outbreaks_arg[i])}

QualifyingPosition(k) ==
    CHOOSE i \in QualifyingPositions :
        Cardinality({j \in QualifyingPositions : j < i}) = k - 1

\* C24: check_alerts returns one alert per input outbreak, in input order,
\* exactly for the outbreaks whose lower-cased disease is in the threshold
\* table and whose cases or deaths reach the disease's threshold; missing
\* counts are 0, other diseases give no alert, an empty input gives an
\* empty list.
C24_OneAlertPerQualifyingOutbreak ==
    AlertsReturned =>
        /\ Len(alerts_out) = Cardinality(QualifyingPositions)
        /\ \A k \in 1..Len(alerts_out) :
              LET outbreak == outbreaks_arg[QualifyingPosition(k)]
              IN  /\ alerts_out[k].disease = outbreak.disease_name
                  /\ alerts_out[k].location = outbreak.location
                  /\ alerts_out[k].severity = outbreak.severity_level
        /\ (outbreaks_arg = << >> => alerts_out = << >>)

C24_DeathsAloneAndMissingCounts ==
    /\ AlertsReturned
    /\ Len(outbreaks_arg) = 2
    /\ DOMAIN outbreaks_arg[1] = {"disease_name", "location", "severity_level"}
    /\ outbreaks_arg[2].disease_name = <<"M","e","n","i","n","g","i","t","i","s">>
    /\ {"cases", "deaths"} \subseteq DOMAIN outbreaks_arg[2]
    /\ outbreaks_arg[2].cases = 0
    /\ outbreaks_arg[2].deaths = 1
    /\ Len(alerts_out) = 1
    /\ alerts_out[1].location = outbreaks_arg[2].location

\* C25: 'Check for New Alerts' stores only new alerts: however often it is
\* pressed, the alerts table holds at most one active row per qualifying
\* outbreak of the outbreak data.
C25_AlertsDoNotGrow ==
    Len(SelectSeq(alerts_table, LAMBDA row : row.is_active))
        <= Len(AlertSystem_check_alerts(disease_outbreaks_table))

(***************************************************************************)
(* Properties of the patient assessment page                               *)
(***************************************************************************)
ClassifyPressed ==
    /\ op = "patient_assessment_page"
    /\ form.rendered
    /\ form.button = "classify"

Blank(str) == \A i \in 1..Len(str) : str[i] = " "

\* The text is a run of the digits 0..9, possibly with blanks around it
DigitString(str) ==
    \E a \in 1..Len(str) : \E b \in a..Len(str) :
        /\ \A i \in 1..Len(str) : (i < a \/ i > b) => str[i] = " "
        /\ \A i \in a..b :
              str[i] \in {"0","1","2","3","4","5","6","7","8","9"}

InvalidForm ==
    \/ Blank(form.patient_name)
    \/ Blank(form.patient_age)
    \/ Blank(form.patient_residence)
    \/ form.patient_gender = ""
    \/ ~DigitString(form.patient_age)

StepRank(step) ==
    CASE step = "error: required fields" -> 0
      [] step = "error: age"             -> 0
      [] step = "classification shown"   -> 1
      [] step = "save_to_database"       -> 2
      [] step = "error: save failed"     -> 3
      [] step = "export_to_csv"          -> 3
      [] step = "generate_pdf_report"    -> 4

Attempted(step) == \E i \in 1..Len(steps) : steps[i] = step

\* C26: classify_and_save validates, then classifies, then saves, then
\* exports.  With an empty name, age, residence or gender, or an age that is
\* not a string of digits, no classification is shown and the patients table,
\* the CSV file and the PDF reports are left as they were; a valid form is
\* classified first; the CSV and PDF exports are attempted only after
\* save_to_database returned True.
C26_ValidateClassifySaveExport ==
    /\ [](ClassifyPressed =>
            /\ \A i \in 1..Len(steps) : \A j \in 1..Len(steps) :
                  i < j => StepRank(steps[i]) < StepRank(steps[j])
            /\ InvalidForm =>
                  /\ result = ""
                  /\ ~success
                  /\ ~Attempted("classification shown")
                  /\ ~Attempted("save_to_database")
                  /\ ~Attempted("export_to_csv")
                  /\ ~Attempted("generate_pdf_report")
                  /\ csv_returned = ""
            /\ ~InvalidForm =>
                  /\ result # ""
                  /\ Len(steps) >= 2
                  /\ steps[1] = "classification shown"
                  /\ steps[2] = "save_to_database"
            /\ (Attempted("export_to_csv") \/ Attempted("generate_pdf_report")
                   \/ csv_returned # "")
                  => success /\ Attempted("save_to_database"))
    /\ [][/\ ClassifyPressed' /\ InvalidForm'
             => UNCHANGED <<patients_table, csv_file, pdf_files>>
          /\ (csv_file' # csv_file \/ pdf_files' # pdf_files)
             => ClassifyPressed' /\ success']_vars

\* An incomplete form is submitted after an earlier patient was stored
C26_RejectedAfterStoredPatient ==
    /\ ClassifyPressed
    /\ form.patient_gender = ""
    /\ patients_table # << >>
    /\ csv_file.exists
    /\ steps = <<"error: required fields">>

\* C27: every assessment that was classified and saved appends exactly one
\* data row to clinical_assessment_results.csv, below a header row that is
\* written once, when the file is created, and export_to_csv returns the file
\* name (the file can be opened).
C27_OneCsvRowPerSavedAssessment ==
    [][(ClassifyPressed' /\ success' /\ csv_returned' # CsvOpenError) =>
          LET before == IF csv_file.exists THEN csv_file.rows ELSE <<CsvHeader>>
          IN  /\ csv_file'.exists
              /\ Len(csv_file'.rows) = Len(before) + 1
              /\ SubSeq(csv_file'.rows, 1, Len(before)) = before
              /\ csv_returned' = CsvFileName]_vars

\* C28: a complete meningitis form submitted with no checkbox ticked builds
\* the workflow with the defaults lp_clear = True and test_done = True and is
\* classified Possible Meningitis.
C28_UntickedFormGetsDefaults ==
    (/\ ClassifyPressed
     /\ ~InvalidForm
     /\ form.workflow_choice = "Meningitis"
     /\ form.ticked = {})
        => /\ meningitis.lp_clear
           /\ meningitis.test_done
           /\ result = PossibleMeningitis

\* C29: sunken_eyes never contributes to Some Dehydration: classify returns
\* Some Dehydration if and only if not all four shock flags are true, none of
\* sunken_eyes, unable_to_drink and skin_pinch_gt_2s is true, and both
\* restless_irritable and skin_pinch_1_2s are true.
C29_SomeDehydrationExactly ==
    DiarrhoeaReturned =>
        (result = SomeDehydration
            <=> /\ ~AllShockFlags
                /\ ~Flag("sunken_eyes")
                /\ ~Flag("unable_to_drink")
                /\ ~Flag("skin_pinch_gt_2s")
                /\ Flag("restless_irritable")
                /\ Flag("skin_pinch_1_2s"))

\* Two of the three moderate signs, one of them sunken_eyes: not Some Dehydration
C29_SunkenEyesWithRestless ==
    /\ DiarrhoeaReturned
    /\ ~AllShockFlags
    /\ Flag("sunken_eyes")
    /\ Flag("restless_irritable")
    /\ ~Flag("skin_pinch_1_2s")
    /\ ~Flag("unable_to_drink")
    /\ ~Flag("skin_pinch_gt_2s")
    /\ result # SomeDehydration

\* c1 * 10^e1 <= c2 * 10^e2 for the counts tried (below 10^HugeExp10 when
\* the exponent is 0, at least 10^HugeExp10 otherwise)
CountAtMost(c1, e1, c2, e2) ==
    IF e1 = e2 THEN c1 <= c2 ELSE e1 < e2

SeverityRank(level) ==
    CASE level = "Low"    -> 1
      [] level = "Medium" -> 2
      [] level = "High"   -> 3

\* C30: the risk level is monotone in both counts: for the disease of the
\* finished call, every call with at least as many cases and at least as many
\* deaths returns a tier at least as severe, in the order Low < Medium < High.
C30_MonotoneInBothCounts ==
    RiskReturned =>
        \A n \in CountInputs, d \in DeathsInputs :
            (CountAtMost(cases, cases_exp10, n[1], n[2]) /\ deaths <= d) =>
                LET larger == CalculateRiskLevel(risk_thresholds, disease,
                                                 n[1], n[2], d)
                IN  /\ RiskOutcome \in RiskLevels
                    /\ larger \in RiskLevels
                    /\ SeverityRank(larger) >= SeverityRank(RiskOutcome)

====
